---- MODULE Spec2Model ----
(***************************************************************************)
(* State-machine model of the crawl pipeline of linhnhdtn/craw:            *)
(*   main -> runInBatches -> crawlPage / crawlProduct / crawlArticle       *)
(*        -> withRetry -> http.get, followed by the partition of the       *)
(*   result array into successes and failures.                             *)
(* One action per continuation of the JavaScript event loop: everything    *)
(* that runs between two suspension points (await of a GET, of a timer, of *)
(* Promise.all) is one atomic step.  (Specification Spec.)                 *)
(* The functions around the crawl (deduplicateUrls, the config built from  *)
(* the command line, getErrorMessage, parsePrice, the variants of a        *)
(* product page, the success rate) are called on arguments drawn from      *)
(* bounded sets.  (Specification SpecFn.)                                  *)
(***************************************************************************)
EXTENDS Integers, Sequences, FiniteSets, TLC

VARIABLES
    processor,    \* which task runInBatches drives
    items,        \* the item (URL) list handed to runInBatches
    concurrency,  \* window size
    pc,           \* position of main / runInBatches
    i,            \* loop index of runInBatches (0-based, as in the code)
    results,      \* runInBatches' local result array
    completed,    \* runInBatches' completion counter
    task,         \* per item position: state of the task launched for it
    trace,        \* per item position: the calls the task made so far
    notified,     \* the onItemDone invocations, in invocation order
    sleeps,       \* the inter-batch sleeps taken, in order
    pages,        \* main: successes of the run
    errors,       \* main: failures of the run
    rawUrls,      \* main: the URLs read from the sitemap
    filter,       \* main: config.filter (a literal pattern, or none)
    totals,       \* main: totalInSitemap, totalAfterDedup, totalAfterFilter
    exported,     \* main: the export functions called so far, in order
    summary,      \* main: the CrawlSummary written
    fnName,       \* a function called on its own: its name
    fnArg,        \* ... its argument
    fnRet         \* ... what it returned

vars == <<processor, items, concurrency, pc, i, results, completed, task,
          trace, notified, sleeps, pages, errors, rawUrls, filter, totals,
          exported, summary, fnName, fnArg, fnRet>>

\* the variables of main around the crawl, and of a function called on its own
mainVars == <<rawUrls, filter, totals, exported, summary>>
fnVars == <<fnName, fnArg, fnRet>>

(***************************************************************************)
(* Bounds of the model.                                                    *)
(***************************************************************************)
MaxItems == 3
MaxConcurrency == 2
\* longest URL list handed to deduplicateUrls on its own
MaxUrls == 3
\* most URLs attempted in a success rate computed on its own
MaxAttempted == 8
\* longest value of a command-line option
MaxArgLen == 3
\* longest price text built from the price characters
MaxPriceLen == 4
\* most variant rows on a product page
MaxRows == 2
\* longest URL path built from the path characters
MaxPathLen == 4
\* most anchors on a page
MaxAnchors == 2

(***************************************************************************)
(* Program constants.                                                      *)
(***************************************************************************)
RetryDelayMs == 1000
delayMs == 500
null == 0
\* config.concurrency when the option gives none
DefaultConcurrency == 5
\* the VAT divisor 1.21, in hundredths
VatPercent == 121
\* the length content is cut to
ContentLimit == 2000

\* URLs are sequences of characters.
UrlPool == << <<"h", "/", "a">>, <<"h", "/", "b">>, <<"h", "/", "c">>,
              <<"h", "/", "d">>, <<"h", "/", "e">>, <<"h", "/", "f">> >>

CrawlProcessors == {"crawlPage", "crawlProduct", "crawlArticle"}
Processors == CrawlProcessors \cup {"processor"}

(***************************************************************************)
(* Errors and HTTP responses.                                              *)
(***************************************************************************)
NoResponse == [status |-> null, statusText |-> ""]

ErrTimeout ==
    [axios |-> TRUE, code |-> "ECONNABORTED", response |-> NoResponse,
     message |-> "timeout of 15000ms exceeded"]

ErrHttp503 ==
    [axios |-> TRUE, code |-> "ERR_BAD_RESPONSE",
     response |-> [status |-> 503, statusText |-> "Service Unavailable"],
     message |-> "Request failed with status code 503"]

ErrExtract ==
    [axios |-> FALSE, code |-> "", response |-> NoResponse,
     message |-> "Invalid URL"]

\* Other failures of a GET, as axios reports them.  `url` is err.config.url,
\* which getErrorMessage prints as it is.
ErrDns ==
    [axios |-> TRUE, code |-> "ENOTFOUND", response |-> NoResponse,
     message |-> "getaddrinfo ENOTFOUND shop.example", url |-> "https://shop.example/a"]

ErrDnsNoConfig ==
    [axios |-> TRUE, code |-> "ENOTFOUND", response |-> NoResponse,
     message |-> "getaddrinfo ENOTFOUND shop.example"]

ErrTlsAltname ==
    [axios |-> TRUE, code |-> "ERR_TLS_CERT_ALTNAME_INVALID", response |-> NoResponse,
     message |-> "Hostname/IP does not match certificate's altnames"]

ErrCertExpired ==
    [axios |-> TRUE, code |-> "CERT_HAS_EXPIRED", response |-> NoResponse,
     message |-> "certificate has expired"]

ErrReset ==
    [axios |-> TRUE, code |-> "ECONNRESET", response |-> NoResponse,
     message |-> "socket hang up"]

ErrRefused ==
    [axios |-> TRUE, code |-> "ECONNREFUSED", response |-> NoResponse,
     message |-> "connect ECONNREFUSED 127.0.0.1:443"]

ErrHttp404 ==
    [axios |-> TRUE, code |-> "ERR_BAD_REQUEST",
     response |-> [status |-> 404, statusText |-> "Not Found"],
     message |-> "Request failed with status code 404"]

ErrNetwork ==
    [axios |-> TRUE, code |-> "ERR_NETWORK", response |-> NoResponse,
     message |-> "Network Error"]

\* The errors a GET of `url` can fail with on its attempt number `attempt`.
\* Whether a GET fails is free; how it fails is a property of the server
\* behind the URL: the table covers the four orders of the two kinds.
FetchErrors(url, attempt) ==
    IF url = UrlPool[1] THEN (IF attempt = 1 THEN {ErrHttp503} ELSE {ErrTimeout})
    ELSE IF url = UrlPool[2] THEN (IF attempt = 1 THEN {ErrTimeout} ELSE {ErrHttp503})
    ELSE IF url = UrlPool[3] THEN {ErrHttp503}
    ELSE {ErrTimeout}

OkResponse == [status |-> 200, ok |-> TRUE]

HasResponse(err) == err.response.status # null

\* A report that always gives the underlying message.
UnderlyingMessage(err) == err.message

getErrorMessage(err) ==
    IF err.axios
    THEN IF err.code = "ECONNABORTED" THEN "Request timed out"
         ELSE IF err.code = "ENOTFOUND"
              THEN "DNS lookup failed: "
                       \o (IF "url" \in DOMAIN err THEN err.url ELSE "unknown host")
         ELSE IF err.code = "ERR_TLS_CERT_ALTNAME_INVALID" THEN "SSL certificate error"
         ELSE IF err.code = "ECONNRESET" THEN "Connection reset by server"
         ELSE IF err.code = "ECONNREFUSED" THEN "Connection refused"
         ELSE IF HasResponse(err)
              THEN "HTTP " \o ToString(err.response.status) \o ": "
                       \o err.response.statusText
              ELSE err.message
    ELSE err.message

getErrorStatus(err) ==
    IF err.axios /\ HasResponse(err) THEN err.response.status ELSE null

NoError == [axios |-> FALSE, code |-> "", response |-> NoResponse, message |-> ""]

(***************************************************************************)
(* Outcome values of the three crawl functions.                            *)
(***************************************************************************)
NoCanonical == <<>>

\* <link rel="canonical"> of the page served at each URL (absent on some pages)
PageCanonical(url) ==
    IF url \in {UrlPool[2], UrlPool[5]} THEN <<"h", "/", "k">> ELSE NoCanonical

\* What extraction does with the fetched page: it returns or it throws.
ExtractOutcomes(url) ==
    {[threw |-> TRUE, canonical |-> NoCanonical],
     [threw |-> FALSE, canonical |-> PageCanonical(url)]}

NoResult == [success |-> FALSE, unset |-> TRUE]

\* canonical ?? sourceUrl of extractProduct / extractArticle
CanonicalOr(ext, url) == IF ext.canonical = NoCanonical THEN url ELSE ext.canonical

Success(p, url, response, ext) ==
    IF p = "crawlPage"
    THEN [success |-> TRUE,
          data |-> [url |-> url, canonical |-> ext.canonical,
                    status_code |-> response.status]]
    ELSE IF p = "crawlProduct"
    THEN [success |-> TRUE,
          data |-> [source_url |-> url, product |-> [url |-> CanonicalOr(ext, url)]]]
    ELSE [success |-> TRUE, data |-> [url |-> CanonicalOr(ext, url)]]

Failure(p, url, err) ==
    IF p = "crawlPage"
    THEN [success |-> FALSE,
          error |-> [url |-> url, status_code |-> getErrorStatus(err),
                     error_message |-> getErrorMessage(err)]]
    ELSE [url |-> url, success |-> FALSE, error |-> getErrorMessage(err)]

\* How a task's promise settles.
Resolved(value) == [value |-> value, kind |-> "resolved"]
Rejected == [value |-> NoResult, kind |-> "rejected"]

\* A catch block that converts only transport errors and rethrows the rest.
CaughtAxiosOnly(p, url, err) ==
    IF err.axios THEN Resolved(Failure(p, url, err)) ELSE Rejected

\* The catch block of crawlPage / crawlProduct / crawlArticle.
Caught(p, url, err) == Resolved(Failure(p, url, err))

(***************************************************************************)
(* withRetry.                                                              *)
(***************************************************************************)
\* A withRetry wrapped around the fetch and the extraction together.
RetryCoversAll(stage) == stage \in {"fetch", "extract"}

\* The stages of a crawl that run inside the function handed to withRetry.
RetryCovers(stage) == stage = "fetch"

\* A retry budget of two extra attempts.
RetryTwice(a) == a <= 2

\* After fn() failed on attempt number a: is fn() run again?
RetryAfterFailure(a) == a = 1

\* A withRetry that throws the error of the last attempt.
RethrownLast(firstError, secondError) == secondError

\* What withRetry throws when the retry failed too.
Rethrown(firstError, secondError) == firstError

(***************************************************************************)
(* runInBatches helpers.                                                   *)
(***************************************************************************)
Min(a, b) == IF a < b THEN a ELSE b

\* Off-by-one slices: one item too many, one item too few.
BatchWide(its, k, c) == [x \in 1..(Min(k + c + 1, Len(its)) - k) |-> k + x]
BatchShort(its, k, c) == [x \in 1..(Min(k + c - 1, Len(its)) - k) |-> k + x]

\* items.slice(i, i + concurrency), as the positions (1-based) it holds
Batch(its, k, c) == [x \in 1..(Min(k + c, Len(its)) - k) |-> k + x]

Range(s) == {s[x] : x \in DOMAIN s}

\* Promise.any / Promise.race in place of Promise.all.
AnySettled(b) == \E x \in DOMAIN b : task[b[x]].st = "resolved"

\* Promise.all(batch.map(...)) is fulfilled
AllSettled(b) == \A x \in DOMAIN b : task[b[x]].st = "resolved"

\* A Promise.all that no rejection reaches.
RejectionSwallowed(b) == FALSE

\* Promise.all(batch.map(...)) is rejected
AnyRejected(b) == \E x \in DOMAIN b : task[b[x]].st = "rejected"

\* Results collected as the tasks complete instead of by position.
BatchResultsByCompletion(b) ==
    LET done == SelectSeq(notified, LAMBDA e : \E x \in DOMAIN b : items[b[x]] = e.item)
    IN  [x \in DOMAIN done |-> done[x].result]

\* the array Promise.all is fulfilled with
BatchResults(b) == [x \in DOMAIN b |-> task[b[x]].result]

\* A delay after every window, the last included.
SleepAfterEveryWindow(k, c, n) == k < n

\* if (i + concurrency < items.length)
SleepNeeded(k, c, n) == k + c < n

\* A counter that is read but never incremented.
NotIncremented(c) == c

\* completed++
NextCompleted(c) == c + 1

\* A loop that advances by one item.
NextItem(k, c) == k + 1

\* i += concurrency
NextWindow(k, c) == k + c

\* A callback log that puts the latest call first.
LatestFirst(calls, call) == <<call>> \o calls

\* onItemDone(completed, items.length, item, result), logged in call order
onItemDone(calls, call) == Append(calls, call)

IdleTask == [attempt |-> 0, firstError |-> NoError, st |-> "idle", result |-> NoResult]

Event(op, arg) == [op |-> op, arg |-> arg]

\* processor(item), up to its first suspension point
Launched(p) ==
    IF p \in CrawlProcessors
    THEN [IdleTask EXCEPT !.st = "get", !.attempt = 1]
    ELSE [IdleTask EXCEPT !.st = "running"]

LaunchEvents(p) == IF p \in CrawlProcessors THEN <<Event("get", 1)>> ELSE <<>>

InFlight(j) == task[j].st \in {"get", "sleep", "running"}
Settled(j) == task[j].st \in {"resolved", "rejected"}

(***************************************************************************)
(* Strings: sequences of one-character strings.                            *)
(***************************************************************************)
DigitChars == <<"0", "1", "2", "3", "4", "5", "6", "7", "8", "9">>

IsDigit(c) == \E d \in DOMAIN DigitChars : DigitChars[d] = c

DigitVal(c) == (CHOOSE d \in DOMAIN DigitChars : DigitChars[d] = c) - 1

\* String(n) of a non-negative integer
RECURSIVE DecimalString(_)
DecimalString(n) ==
    IF n < 10 THEN <<DigitChars[n + 1]>>
    ELSE DecimalString(n \div 10) \o <<DigitChars[(n % 10) + 1]>>

\* the value of a string of digits
RECURSIVE NumberOf(_)
NumberOf(s) ==
    IF s = <<>> THEN 0
    ELSE 10 * NumberOf(SubSeq(s, 1, Len(s) - 1)) + DigitVal(s[Len(s)])

\* String.prototype.includes, and RegExp.prototype.test of a literal pattern
Includes(str, pat) ==
    \E k \in 0..(Len(str) - Len(pat)) : SubSeq(str, k + 1, k + Len(pat)) = pat

(***************************************************************************)
(* deduplicateUrls and filterUrls.                                         *)
(***************************************************************************)
\* A normalization that strips every trailing slash.
RECURSIVE StripAllSlashes(_)
StripAllSlashes(url) ==
    IF url # <<>> /\ url[Len(url)] = "/"
    THEN StripAllSlashes(SubSeq(url, 1, Len(url) - 1))
    ELSE url

\* url.replace(/\/$/, "")
StripSlash(url) ==
    IF url # <<>> /\ url[Len(url)] = "/" THEN SubSeq(url, 1, Len(url) - 1) ELSE url

\* A dedup that keeps the normalized spelling.
KeptNormalized(url) == StripSlash(url)

\* unique.push(url): what is kept of a URL seen for the first time
Kept(url) == url

\* the for loop of deduplicateUrls, from position k on
RECURSIVE DedupFrom(_, _, _, _)
DedupFrom(urls, k, seen, unique) ==
    IF k > Len(urls) THEN unique
    ELSE LET normalized == StripSlash(urls[k]) IN
         IF normalized \notin seen
         THEN DedupFrom(urls, k + 1, seen \cup {normalized}, Append(unique, Kept(urls[k])))
         ELSE DedupFrom(urls, k + 1, seen, unique)

deduplicateUrls(urls) == DedupFrom(urls, 1, {}, <<>>)

filterUrls(urls, pattern) == SelectSeq(urls, LAMBDA url : Includes(url, pattern))

NoFilter == <<>>

(***************************************************************************)
(* parseArgs and the CrawlConfig of main.                                  *)
(***************************************************************************)
\* JavaScript values: numbers, NaN, undefined
JsNumber(n) == [value |-> n, type |-> "number", nan |-> FALSE]
NaN == [type |-> "number", nan |-> TRUE]
undefined == [type |-> "undefined"]

\* ToBoolean of a number or undefined
Truthy(v) == v.type = "number" /\ ~v.nan /\ v.value # 0

RECURSIVE TrimStart(_)
TrimStart(s) == IF s # <<>> /\ s[1] = " " THEN TrimStart(Tail(s)) ELSE s

\* the longest prefix of s made of digits
RECURSIVE DigitPrefix(_)
DigitPrefix(s) ==
    IF s # <<>> /\ IsDigit(s[1]) THEN <<s[1]>> \o DigitPrefix(Tail(s)) ELSE <<>>

\* parseInt(s, 10)
parseInt(s) ==
    LET t == TrimStart(s)
        signed == t # <<>> /\ t[1] \in {"-", "+"}
        sign == IF t # <<>> /\ t[1] = "-" THEN -1 ELSE 1
        digits == DigitPrefix(IF signed THEN Tail(t) ELSE t)
    IN  IF digits = <<>> THEN NaN ELSE JsNumber(sign * NumberOf(digits))

\* opts.concurrency of the command line: absent, or the text after "="
NoOption == [given |-> FALSE]
Option(text) == [value |-> text, given |-> TRUE]

\* opts.concurrency ? parseInt(opts.concurrency, 10) : undefined
ArgsConcurrency(opt) ==
    IF opt.given /\ opt.value # <<>> THEN parseInt(opt.value) ELSE undefined

\* concurrency: args.concurrency || 5
ConfigConcurrency(opt) ==
    LET c == ArgsConcurrency(opt) IN
    IF Truthy(c) THEN c.value ELSE DefaultConcurrency

(***************************************************************************)
(* parsePrice and formatPrice.  A number is mant / 10^scale, without       *)
(* trailing zeros in the fraction.                                         *)
(***************************************************************************)
RECURSIVE Pow10(_)
Pow10(n) == IF n = 0 THEN 1 ELSE 10 * Pow10(n - 1)

RECURSIVE JsDecimal(_, _)
JsDecimal(mant, scale) ==
    IF scale > 0 /\ mant % 10 = 0 THEN JsDecimal(mant \div 10, scale - 1)
    ELSE [type |-> "number", nan |-> FALSE, mant |-> mant, scale |-> scale]

\* parseFloat of a string: the longest prefix that reads as a decimal
parseFloat(s) ==
    LET t == TrimStart(s)
        whole == DigitPrefix(t)
        rest == SubSeq(t, Len(whole) + 1, Len(t))
        frac == IF rest # <<>> /\ rest[1] = "." THEN DigitPrefix(Tail(rest)) ELSE <<>>
    IN  IF whole = <<>> /\ frac = <<>> THEN NaN
        ELSE JsDecimal(NumberOf(whole \o frac), Len(frac))

\* A filter that keeps the blanks.
BlanksKept(raw) == SelectSeq(raw, LAMBDA c : IsDigit(c) \/ c \in {".", ",", " "})

\* raw.replace(/[^\d.,]/g, "")
StripNonPrice(raw) == SelectSeq(raw, LAMBDA c : IsDigit(c) \/ c \in {".", ","})

\* /\.(?=\d{3}(?:[,]|$))/ matches at position k of s
ThousandsDot(s, k) ==
    /\ s[k] = "."
    /\ k + 3 <= Len(s)
    /\ \A h \in 1..3 : IsDigit(s[k + h])
    /\ (k + 3 = Len(s) \/ s[k + 4] = ",")

\* s.replace(/\.(?=\d{3}(?:[,]|$))/g, ""), from position k on
RECURSIVE DropThousandsDots(_, _)
DropThousandsDots(s, k) ==
    IF k > Len(s) THEN <<>>
    ELSE (IF ThousandsDot(s, k) THEN <<>> ELSE <<s[k]>>) \o DropThousandsDots(s, k + 1)

\* .replace(",", "."): the first comma only
CommaToPeriod(s) ==
    IF \E k \in DOMAIN s : s[k] = ","
    THEN LET k == CHOOSE k \in DOMAIN s : s[k] = "," /\ \A h \in 1..(k - 1) : s[h] # ","
         IN  [s EXCEPT ![k] = "."]
    ELSE s

\* the null parsePrice returns
NoPrice == [type |-> "null"]

\* A reading of NaN as zero.
NaNToZero(num) == IF num.nan THEN JsDecimal(0, 0) ELSE num

\* isNaN(num) ? null : num
NaNToNull(num) == IF num.nan THEN NoPrice ELSE num

parsePrice(raw) ==
    LET s == StripNonPrice(raw) IN
    IF s = <<>> THEN NoPrice
    ELSE LET normalized == CommaToPeriod(DropThousandsDots(s, 1))
         IN  NaNToNull(parseFloat(normalized))

\* A price left as it is.
NotDivided(num) == [numer |-> num.mant, denom |-> Pow10(num.scale)]

\* priceInclNum / 1.21, as a fraction
DividedByVat(num) == [numer |-> num.mant * 100, denom |-> VatPercent * Pow10(num.scale)]

\* num.toFixed(2)
formatPrice(num) ==
    LET cents == (200 * num.numer + num.denom) \div (2 * num.denom) IN
    DecimalString(cents \div 100) \o <<".">>
        \o <<DigitChars[((cents \div 10) % 10) + 1], DigitChars[(cents % 10) + 1]>>

\* priceInclNum !== null ? formatPrice(priceInclNum / 1.21) : ""
PriceExcl(priceInclNum) ==
    IF priceInclNum # NoPrice THEN formatPrice(DividedByVat(priceInclNum)) ELSE <<>>

(***************************************************************************)
(* extractProduct: the variants of a product page.  A page is its variant  *)
(* rows and the text of its first price element.                           *)
(***************************************************************************)
\* text.replace(/\s+/g, " ")
RECURSIVE CollapseBlanks(_)
CollapseBlanks(text) ==
    IF Len(text) < 2 THEN text
    ELSE IF text[1] = " " /\ text[2] = " " THEN CollapseBlanks(Tail(text))
    ELSE <<text[1]>> \o CollapseBlanks(Tail(text))

RECURSIVE TrimEnd(_)
TrimEnd(text) ==
    IF text # <<>> /\ text[Len(text)] = " "
    THEN TrimEnd(SubSeq(text, 1, Len(text) - 1))
    ELSE text

cleanText(text) == TrimEnd(TrimStart(CollapseBlanks(text)))

\* variants.push({...}) of a variant row
RowVariant(row) ==
    LET priceInclRaw == cleanText(row.price) IN
    [color |-> row.color,
     art_no |-> row.artNo,
     price_incl_vat |-> priceInclRaw,
     price_excl_vat |-> PriceExcl(parsePrice(priceInclRaw)),
     in_stock |-> row.green,
     status_text |-> row.whText]

\* variants.push({...}) of the fallback
MainVariant(mainPriceRaw) ==
    [color |-> "",
     art_no |-> "",
     price_incl_vat |-> mainPriceRaw,
     price_excl_vat |-> PriceExcl(parsePrice(mainPriceRaw)),
     in_stock |-> FALSE,
     status_text |-> ""]

\* the .each loop over the variant rows, from row k on
RECURSIVE RowVariants(_, _)
RowVariants(rows, k) ==
    IF k > Len(rows) THEN <<>> ELSE <<RowVariant(rows[k])>> \o RowVariants(rows, k + 1)

\* A fallback taken whatever the rows gave.
FallbackAlways(variants) == TRUE

\* if (variants.length === 0)
NeedsFallback(variants) == Len(variants) = 0

\* the variants extractProduct returns for a page
extractVariants(page) ==
    LET variants == RowVariants(page.rows, 1)
        mainPriceRaw == cleanText(page.mainPrice)
    IN  IF NeedsFallback(variants) /\ mainPriceRaw # <<>>
        THEN Append(variants, MainVariant(mainPriceRaw))
        ELSE variants

(***************************************************************************)
(* classifyPage.  `path` is new URL(url).pathname; `jsonLd` is the parsed  *)
(* JSON-LD block, or none.                                                 *)
(***************************************************************************)
\* /\/a\/\d+\//.test(path)
ArticlePath(path) ==
    \E k \in DOMAIN path : \E m \in DOMAIN path :
        /\ k + 4 <= m
        /\ SubSeq(path, k, k + 2) = <<"/", "a", "/">>
        /\ \A h \in (k + 3)..(m - 1) : IsDigit(path[h])
        /\ path[m] = "/"

\* /\/c\//.test(path) || /\/choose-/.test(path)
CategoryPath(path) ==
    \/ Includes(path, <<"/", "c", "/">>)
    \/ Includes(path, <<"/", "c", "h", "o", "o", "s", "e", "-">>)

\* /\/p\//.test(path)
ProductPath(path) == Includes(path, <<"/", "p", "/">>)

LowerLetters ==
    <<"a", "b", "c", "d", "e", "f", "g", "h", "i", "j", "k", "l", "m",
      "n", "o", "p", "q", "r", "s", "t", "u", "v", "w", "x", "y", "z">>

UpperLetters ==
    <<"A", "B", "C", "D", "E", "F", "G", "H", "I", "J", "K", "L", "M",
      "N", "O", "P", "Q", "R", "S", "T", "U", "V", "W", "X", "Y", "Z">>

\* the lower-case form of a character
LowerChar(c) ==
    IF \E k \in DOMAIN UpperLetters : UpperLetters[k] = c
    THEN LowerLetters[CHOOSE k \in DOMAIN UpperLetters : UpperLetters[k] = c]
    ELSE c

ToLowerCase(str) == [k \in DOMAIN str |-> LowerChar(str[k])]

\* /gallery/i.test(path)
GalleryPath(path) == Includes(ToLowerCase(path), <<"g", "a", "l", "l", "e", "r", "y">>)

NoJsonLd == [present |-> FALSE]
JsonLd(type) == [type |-> type, present |-> TRUE]

\* String(jsonLd["@type"] ?? "").toLowerCase(), for the types schema.org pages carry
LowerType(type) ==
    CASE type = "Product" -> "product" [] type = "Article" -> "article"
      [] type = "NewsArticle" -> "newsarticle" [] type = "BlogPosting" -> "blogposting"
      [] type = "Organization" -> "organization" [] OTHER -> type

\* the JSON-LD part of classifyPage
TypeFromJsonLd(jsonLd) ==
    IF jsonLd.present /\ LowerType(jsonLd.type) = "product" THEN "product"
    ELSE IF jsonLd.present
            /\ LowerType(jsonLd.type) \in {"article", "newsarticle", "blogposting"}
    THEN "article"
    ELSE "page"

\* A classification that asks JSON-LD first.
classifyJsonLdFirst(path, jsonLd) ==
    IF TypeFromJsonLd(jsonLd) # "page" THEN TypeFromJsonLd(jsonLd)
    ELSE IF ArticlePath(path) THEN "article"
    ELSE IF CategoryPath(path) THEN "category"
    ELSE IF ProductPath(path) THEN "product"
    ELSE IF GalleryPath(path) THEN "gallery"
    ELSE "page"

classifyPage(path, jsonLd) ==
    IF ArticlePath(path) THEN "article"
    ELSE IF CategoryPath(path) THEN "category"
    ELSE IF ProductPath(path) THEN "product"
    ELSE IF GalleryPath(path) THEN "gallery"
    ELSE TypeFromJsonLd(jsonLd)

(***************************************************************************)
(* extractContent and the word count of crawlPage.  A page is the elements *)
(* the content selectors find (after the noise elements are removed) and   *)
(* the text of its body.                                                   *)
(***************************************************************************)
CONTENT_SELECTORS == <<"main", "article", ".main-content", ".content", "#content",
                       ".page-content">>

\* $(sel).first(): no element, or an element and its text
NoElement == [length |-> 0]
Element(text) == [text |-> text, length |-> 1]

\* text.replace(/\s+/g, " "), by halves
RECURSIVE CollapseWhitespace(_)
CollapseWhitespace(text) ==
    IF Len(text) <= 1 THEN text
    ELSE LET half == Len(text) \div 2
             left == CollapseWhitespace(SubSeq(text, 1, half))
             right == CollapseWhitespace(SubSeq(text, half + 1, Len(text)))
         IN  IF left[Len(left)] = " " /\ right[1] = " "
             THEN left \o Tail(right)
             ELSE left \o right

\* .trim() of a text whose blanks are collapsed
TrimCollapsed(text) ==
    LET from == IF text # <<>> /\ text[1] = " " THEN 2 ELSE 1
        to == IF Len(text) >= from /\ text[Len(text)] = " " THEN Len(text) - 1
              ELSE Len(text)
    IN  SubSeq(text, from, to)

\* raw.slice(0, 2000)
Truncated(raw) == SubSeq(raw, 1, Min(Len(raw), ContentLimit))

\* the container the for loop breaks at: the first selector with an element
FirstFound(page, k) ==
    /\ page.containers[k].length > 0
    /\ \A h \in 1..(k - 1) : page.containers[h].length = 0

\* the text extractContent works on, before it is collapsed and cut
SelectedText(page) ==
    LET text == IF \E k \in DOMAIN CONTENT_SELECTORS : FirstFound(page, k)
                THEN page.containers[CHOOSE k \in DOMAIN CONTENT_SELECTORS :
                                        FirstFound(page, k)].text
                ELSE <<>>
    IN  IF text = <<>> THEN page.body ELSE text

extractContent(page) == Truncated(TrimCollapsed(CollapseWhitespace(SelectedText(page))))

\* content.split(/\s+/).length
SplitLength(content) == Cardinality({k \in DOMAIN content : content[k] = " "}) + 1

\* content ? content.split(/\s+/).length : 0
WordCount(page, content) == IF content # <<>> THEN SplitLength(content) ELSE 0

(***************************************************************************)
(* extractPrice.  A page is the offers node of its JSON-LD, its            *)
(* itemprop="price" element, its itemprop="priceCurrency" element and the  *)
(* text of its first .price / .product-price element.                      *)
(***************************************************************************)
\* a value that may be undefined
Undefined == [defined |-> FALSE]
Defined(v) == [v |-> v, defined |-> TRUE]

\* a ?? b
Coalesce(a, b) == IF a.defined THEN a ELSE b

\* x?.trim()
TrimOpt(x) == IF x.defined THEN Defined(TrimEnd(TrimStart(x.v))) ELSE Undefined

\* resolveOffers(jsonLd) when the page has no JSON-LD or no offers node
NoOffers == [found |-> FALSE]
Offers(price, lowPrice, priceCurrency) ==
    [price |-> price, found |-> TRUE, lowPrice |-> lowPrice,
     priceCurrency |-> priceCurrency]

\* String(offers.price ?? offers.lowPrice ?? "")
OffersPrice(offers) == Coalesce(Coalesce(offers.price, offers.lowPrice), Defined(<<>>)).v

\* the fallback to HTML selectors: price
HtmlPrice(page) ==
    LET price == Coalesce(Coalesce(TrimOpt(page.itempropContent),
                                   Defined(TrimEnd(TrimStart(page.itempropText)))),
                          Defined(TrimEnd(TrimStart(StripNonPrice(page.classText)))))
    IN  price.v

\* the fallback to HTML selectors: currency
HtmlCurrency(page) == Coalesce(TrimOpt(page.currencyContent), Defined(<<>>)).v

extractPrice(page) ==
    IF page.offers.found /\ OffersPrice(page.offers) # <<>>
    THEN [price |-> OffersPrice(page.offers),
          currency |-> Coalesce(page.offers.priceCurrency, Defined(<<>>)).v]
    ELSE [price |-> HtmlPrice(page), currency |-> HtmlCurrency(page)]

(***************************************************************************)
(* extractLinks, and the part of new URL(href) it relies on.               *)
(***************************************************************************)
\* str.startsWith(prefix)
StartsWith(str, prefix) ==
    Len(str) >= Len(prefix) /\ SubSeq(str, 1, Len(prefix)) = prefix

IsAlpha(c) ==
    \E k \in DOMAIN LowerLetters : LowerLetters[k] = c \/ UpperLetters[k] = c

\* the position of the first character of str that is in chars, Len(str) + 1 if none
FirstOf(str, chars) ==
    LET hits == {k \in DOMAIN str : str[k] \in chars} IN
    IF hits = {} THEN Len(str) + 1 ELSE CHOOSE k \in hits : \A h \in hits : k <= h

\* the position of the colon that ends the scheme of href, 0 if href has no scheme
SchemeEnd(href) ==
    LET k == FirstOf(href, {":"}) IN
    IF /\ k <= Len(href)
       /\ k > 1
       /\ IsAlpha(href[1])
       /\ \A h \in 2..(k - 1) : IsAlpha(href[h]) \/ IsDigit(href[h]) \/ href[h] \in {"+", "-", "."}
    THEN k ELSE 0

SpecialSchemes ==
    {<<"h", "t", "t", "p">>, <<"h", "t", "t", "p", "s">>, <<"f", "t", "p">>,
     <<"w", "s">>, <<"w", "s", "s">>}

\* str without its leading slashes and backslashes
RECURSIVE SkipSlashes(_)
SkipSlashes(str) ==
    IF str # <<>> /\ str[1] \in {"/", "\\"} THEN SkipSlashes(Tail(str)) ELSE str

\* the host name in an authority: after the user info, before the port
HostOfAuthority(authority) ==
    LET ats == {k \in DOMAIN authority : authority[k] = "@"}
        from == IF ats = {} THEN 1 ELSE (CHOOSE k \in ats : \A h \in ats : h <= k) + 1
        hostport == SubSeq(authority, from, Len(authority))
    IN  ToLowerCase(SubSeq(hostport, 1, FirstOf(hostport, {":"}) - 1))

InvalidUrl == [valid |-> FALSE]
ParsedUrl(hostname) == [valid |-> TRUE, hostname |-> hostname]

\* new URL(href): a TypeError, or a URL with its hostname
NewUrl(href) ==
    LET colon == SchemeEnd(href)
        scheme == ToLowerCase(SubSeq(href, 1, colon - 1))
        rest == SubSeq(href, colon + 1, Len(href))
    IN  IF colon = 0 THEN InvalidUrl
        ELSE IF scheme \in SpecialSchemes
        THEN LET after == SkipSlashes(rest)
                 authority == SubSeq(after, 1, FirstOf(after, {"/", "?", "#", "\\"}) - 1)
             IN  IF HostOfAuthority(authority) = <<>> THEN InvalidUrl
                 ELSE ParsedUrl(HostOfAuthority(authority))
        ELSE IF StartsWith(rest, <<"/", "/">>)
        THEN LET after == SubSeq(rest, 3, Len(rest))
                 authority == SubSeq(after, 1, FirstOf(after, {"/", "?", "#"}) - 1)
             IN  ParsedUrl(HostOfAuthority(authority))
        ELSE ParsedUrl(<<>>)

\* !href || href.startsWith("#") || href.startsWith("mailto:") || href.startsWith("tel:")
Excluded(href) ==
    \/ href = <<>>
    \/ StartsWith(href, <<"#">>)
    \/ StartsWith(href, <<"m", "a", "i", "l", "t", "o", ":">>)
    \/ StartsWith(href, <<"t", "e", "l", ":">>)

\* A test for a leading slash only.
SlashFirst(href) == StartsWith(href, <<"/">>)

\* href.startsWith("/") && !href.startsWith("//")
IsRelative(href) == StartsWith(href, <<"/">>) /\ ~StartsWith(href, <<"/", "/">>)

NoLinks == [internal |-> <<>>, externalCount |-> 0]

\* the callback of $("a[href]").each, for one anchor
CountLink(links, href, baseHost) ==
    IF Excluded(href) THEN links
    ELSE IF IsRelative(href) THEN [links EXCEPT !.internal = Append(@, href)]
    ELSE IF ~NewUrl(href).valid THEN links
    ELSE IF NewUrl(href).hostname = baseHost
    THEN [links EXCEPT !.internal = Append(@, href)]
    ELSE [links EXCEPT !.externalCount = @ + 1]

\* $("a[href]").each(...) over the anchors up to position k
RECURSIVE LinksUpTo(_, _, _)
LinksUpTo(hrefs, k, baseHost) ==
    IF k = 0 THEN NoLinks
    ELSE CountLink(LinksUpTo(hrefs, k - 1, baseHost), hrefs[k], baseHost)

extractLinks(hrefs, baseHost) == LinksUpTo(hrefs, Len(hrefs), baseHost)

(***************************************************************************)
(* extractArticle: the embeds of an article body.                          *)
(***************************************************************************)
\* $el.attr("data-privacy-src") ?? $el.attr("src") ?? $el.attr("data-src") ?? ""
getIframeSrc(el) ==
    Coalesce(el.privacySrc, Coalesce(el.src, Coalesce(el.dataSrc, Defined(<<>>)))).v

detectEmbedType(src) ==
    IF \/ Includes(src, <<"y", "o", "u", "t", "u", "b", "e", ".", "c", "o", "m">>)
       \/ Includes(src, <<"y", "o", "u", "t", "u", "b", "e", "-", "n", "o", "c", "o", "o", "k", "i", "e", ".", "c", "o", "m">>)
    THEN "youtube"
    ELSE IF src # <<>> THEN "iframe" ELSE "unknown"

\* the embed pushed for one iframe, without its dimensions
EmbedOf(el) == [type |-> detectEmbedType(getIframeSrc(el)), src |-> getIframeSrc(el)]

(***************************************************************************)
(* The summary.                                                            *)
(***************************************************************************)
\* A rate computed without the guard on the number of URLs: 0 / 0 is NaN.
UnguardedRate(successes, attempted) ==
    IF attempted = 0 THEN <<"N", "a", "N", "%">>
    ELSE LET tenths == (2000 * successes + attempted) \div (2 * attempted) IN
         DecimalString(tenths \div 10) \o <<".">> \o DecimalString(tenths % 10) \o <<"%">>

\* urls.length > 0 ? ((pages.length / urls.length) * 100).toFixed(1) + "%" : "0%"
SuccessRate(successes, attempted) ==
    IF attempted > 0
    THEN LET tenths == (2000 * successes + attempted) \div (2 * attempted) IN
         DecimalString(tenths \div 10) \o <<".">> \o DecimalString(tenths % 10) \o <<"%">>
    ELSE <<"0", "%">>

NoTotals == [inSitemap |-> 0, afterDedup |-> 0, afterFilter |-> 0]
NoSummary == [written |-> FALSE]

\* the export functions main calls after a crawl, per mode
ExportsAfterCrawl(p, failures) ==
    IF p = "crawlPage"
    THEN <<"exportData">> \o (IF failures > 0 THEN <<"exportErrors">> ELSE <<>>)
             \o <<"exportSummary">>
    ELSE IF p = "crawlProduct" THEN <<"exportProductsJson", "exportProductsCsv">>
    ELSE <<"exportArticlesJson", "exportArticlesHtml">>

(***************************************************************************)
(* Initial state: main (or a direct caller) is about to run.               *)
(***************************************************************************)
Slashed(url) == Append(url, "/")

\* The URL lists a sitemap yields: plain ones, and ones with duplicates
RawLists ==
    {SubSeq(UrlPool, 1, n) : n \in 0..MaxItems}
        \cup {<<UrlPool[1], Slashed(UrlPool[1])>>,
              <<Slashed(UrlPool[1]), UrlPool[2], UrlPool[1]>>,
              <<UrlPool[1], UrlPool[2], UrlPool[1], Slashed(UrlPool[2])>>}

\* --filter: absent, matching one URL of the pool, matching none
Filters == {NoFilter, <<"/", "a">>, <<"z">>}

NoCall == "none"

\* no function is called on its own during a crawl
FnIdle == fnName = NoCall /\ fnArg = <<>> /\ fnRet = <<>>

Init ==
    /\ processor \in Processors
    /\ IF processor \in CrawlProcessors
       THEN /\ rawUrls \in RawLists
            /\ filter \in Filters
            /\ items = <<>>
            /\ pc = "main"
       ELSE /\ rawUrls = <<>>
            /\ filter = NoFilter
            /\ \E n \in 0..MaxItems : items = SubSeq(UrlPool, 1, n)
            /\ pc = "loop"
    /\ concurrency \in 1..MaxConcurrency
    /\ i = 0
    /\ results = <<>>
    /\ completed = 0
    /\ task = [j \in 1..Len(items) |-> IdleTask]
    /\ trace = [j \in 1..Len(items) |-> <<>>]
    /\ notified = <<>>
    /\ sleeps = <<>>
    /\ pages = <<>>
    /\ errors = <<>>
    /\ totals = NoTotals
    /\ exported = <<>>
    /\ summary = NoSummary
    /\ FnIdle

(***************************************************************************)
(* main                                                                    *)
(***************************************************************************)
\* A list of successes that takes every result.
EveryResult(rs) == rs

\* for (const r of results) { if (r.success) pages.push(...) }
Successes(rs) == SelectSeq(rs, LAMBDA r : r.success)

\* for (const r of results) { ... else errors.push(...) }
Failures(rs) == SelectSeq(rs, LAMBDA r : ~r.success)

\* A main that crawls whatever the list holds.
AlwaysCrawl(urls) == FALSE

\* if (urls.length === 0) { ...; return; }
NothingToCrawl(urls) == Len(urls) = 0

\* main up to the call of runInBatches: dedup, filter, export of the URL
\* list; an empty URL list ends the run.
Main ==
    /\ pc = "main"
    /\ LET dedupedUrls == deduplicateUrls(rawUrls)
           urls == IF filter # NoFilter THEN filterUrls(dedupedUrls, filter)
                                        ELSE dedupedUrls
       IN  /\ totals' = [inSitemap |-> Len(rawUrls),
                         afterDedup |-> Len(dedupedUrls),
                         afterFilter |-> Len(urls)]
           /\ items' = urls
           /\ task' = [j \in 1..Len(urls) |-> IdleTask]
           /\ trace' = [j \in 1..Len(urls) |-> <<>>]
           /\ exported' = <<"exportUrlList">>
           /\ pc' = IF NothingToCrawl(urls) THEN "exit" ELSE "loop"
    /\ UNCHANGED <<processor, concurrency, i, results, completed, notified,
                   sleeps, pages, errors, rawUrls, filter, summary, fnVars>>

\* main after runInBatches returned: partition of the results, exports,
\* and (in the default mode) the summary.
Aggregate ==
    /\ pc = "returned"
    /\ processor \in CrawlProcessors
    /\ pages' = Successes(results)
    /\ errors' = Failures(results)
    /\ exported' = exported \o ExportsAfterCrawl(processor, Len(errors'))
    /\ summary' =
          IF processor = "crawlPage"
          THEN [written |-> TRUE,
                total_urls_in_sitemap |-> totals.inSitemap,
                total_urls_after_dedup |-> totals.afterDedup,
                total_urls_after_filter |-> totals.afterFilter,
                total_crawled |-> Len(items),
                total_success |-> Len(pages'),
                total_errors |-> Len(errors'),
                success_rate |-> SuccessRate(Len(pages'), Len(items))]
          ELSE summary
    /\ pc' = "done"
    /\ UNCHANGED <<processor, items, concurrency, i, results, completed, task,
                   trace, notified, sleeps, rawUrls, filter, totals, fnVars>>

(***************************************************************************)
(* runInBatches                                                            *)
(***************************************************************************)
\* The loop test; a new window launches the task of each of its items.
LoopTest ==
    /\ UNCHANGED <<mainVars, fnVars>>
    /\ pc = "loop"
    /\ IF i < Len(items)
       THEN LET b == Range(Batch(items, i, concurrency)) IN
            /\ task' = [j \in DOMAIN task |->
                           IF j \in b THEN Launched(processor) ELSE task[j]]
            /\ trace' = [j \in DOMAIN trace |->
                           IF j \in b THEN trace[j] \o LaunchEvents(processor)
                                      ELSE trace[j]]
            /\ pc' = "await"
       ELSE /\ pc' = "returned"
            /\ UNCHANGED <<task, trace>>
    /\ UNCHANGED <<processor, items, concurrency, i, results, completed,
                   notified, sleeps, pages, errors>>

\* The task of item j settles: the rest of the batch.map callback runs.
Settle(j, outcome, events) ==
    /\ trace' = [trace EXCEPT ![j] = @ \o events]
    /\ IF outcome.kind = "resolved"
       THEN /\ task' = [task EXCEPT ![j].st = "resolved", ![j].result = outcome.value]
            /\ completed' = NextCompleted(completed)
            /\ notified' = onItemDone(notified,
                              [completed |-> completed', item |-> items[j],
                               result |-> outcome.value, total |-> Len(items)])
       ELSE /\ task' = [task EXCEPT ![j].st = "rejected"]
            /\ UNCHANGED <<completed, notified>>

\* A stage of the crawl of item j threw err.
FailAt(j, stage, err, events) ==
    IF RetryCovers(stage)
    THEN IF RetryAfterFailure(task[j].attempt)
         THEN /\ task' = [task EXCEPT ![j].st = "sleep", ![j].firstError = err]
              /\ trace' = [trace EXCEPT ![j] = @ \o events \o <<Event("sleep", RetryDelayMs)>>]
              /\ UNCHANGED <<completed, notified>>
         ELSE Settle(j, Caught(processor, items[j],
                               Rethrown(task[j].firstError, err)), events)
    ELSE Settle(j, Caught(processor, items[j], err), events)

\* The GET of item j fails.
GetFail(j) ==
    /\ UNCHANGED <<mainVars, fnVars>>
    /\ task[j].st = "get"
    /\ \E e \in FetchErrors(items[j], task[j].attempt) :
          FailAt(j, "fetch", e, <<Event("got", [ok |-> FALSE, err |-> e])>>)
    /\ UNCHANGED <<processor, items, concurrency, pc, i, results, sleeps, pages, errors>>

\* The GET of item j succeeds: extraction runs and the crawl function returns.
GetOk(j) ==
    /\ UNCHANGED <<mainVars, fnVars>>
    /\ task[j].st = "get"
    /\ \E ext \in ExtractOutcomes(items[j]) :
          LET events == <<Event("got", OkResponse), Event("extract", ext)>> IN
          IF ext.threw
          THEN FailAt(j, "extract", ErrExtract, events)
          ELSE Settle(j, Resolved(Success(processor, items[j], OkResponse, ext)), events)
    /\ UNCHANGED <<processor, items, concurrency, pc, i, results, sleeps, pages, errors>>

\* sleep(1000) of withRetry elapses: fn() is called again.
RetryTimer(j) ==
    /\ UNCHANGED <<mainVars, fnVars>>
    /\ task[j].st = "sleep"
    /\ task' = [task EXCEPT ![j].st = "get", ![j].attempt = @ + 1]
    /\ trace' = [trace EXCEPT ![j] = Append(@, Event("get", task[j].attempt + 1))]
    /\ UNCHANGED <<processor, items, concurrency, pc, i, results, completed,
                   notified, sleeps, pages, errors>>

\* A task of a caller other than main settles, either way.
TaskSettle(j) ==
    /\ UNCHANGED <<mainVars, fnVars>>
    /\ task[j].st = "running"
    /\ \E outcome \in {Resolved([success |-> TRUE, value |-> items[j]]), Rejected} :
          Settle(j, outcome, <<>>)
    /\ UNCHANGED <<processor, items, concurrency, pc, i, results, sleeps, pages, errors>>

\* Promise.all is fulfilled: the results are pushed, then the delay or the next turn.
BatchSettle ==
    /\ UNCHANGED <<mainVars, fnVars>>
    /\ pc = "await"
    /\ AllSettled(Batch(items, i, concurrency))
    /\ results' = results \o BatchResults(Batch(items, i, concurrency))
    /\ IF SleepNeeded(i, concurrency, Len(items))
       THEN /\ pc' = "sleep"
            /\ sleeps' = Append(sleeps, [after |-> i, ms |-> delayMs])
            /\ i' = i
       ELSE /\ pc' = "loop"
            /\ i' = NextWindow(i, concurrency)
            /\ UNCHANGED sleeps
    /\ UNCHANGED <<processor, items, concurrency, completed, task, trace,
                   notified, pages, errors>>

\* Promise.all is rejected: runInBatches rejects.
BatchReject ==
    /\ UNCHANGED <<mainVars, fnVars>>
    /\ pc = "await"
    /\ AnyRejected(Batch(items, i, concurrency))
    /\ pc' = "rejected"
    /\ UNCHANGED <<processor, items, concurrency, i, results, completed, task,
                   trace, notified, sleeps, pages, errors>>

\* sleep(delayMs) elapses: the loop goes on.
Wake ==
    /\ UNCHANGED <<mainVars, fnVars>>
    /\ pc = "sleep"
    /\ i' = NextWindow(i, concurrency)
    /\ pc' = "loop"
    /\ UNCHANGED <<processor, items, concurrency, results, completed, task,
                   trace, notified, sleeps, pages, errors>>

Next ==
    \/ Main
    \/ Aggregate
    \/ LoopTest
    \/ \E j \in DOMAIN task : GetFail(j)
    \/ \E j \in DOMAIN task : GetOk(j)
    \/ \E j \in DOMAIN task : RetryTimer(j)
    \/ \E j \in DOMAIN task : TaskSettle(j)
    \/ BatchSettle
    \/ BatchReject
    \/ Wake

Spec == Init /\ [][Next]_vars

\* the positions a task can have
TaskIds == 1..MaxItems

\* Every continuation that is ready runs: the event loop leaves no ready
\* continuation or elapsed timer waiting for ever, and every request ends,
\* by its response, its error or its timeout.
Fairness ==
    /\ WF_vars(Main)
    /\ WF_vars(Aggregate)
    /\ WF_vars(LoopTest)
    /\ WF_vars(BatchSettle)
    /\ WF_vars(BatchReject)
    /\ WF_vars(Wake)
    /\ \A j \in TaskIds :
          /\ WF_vars(j \in DOMAIN task /\ (GetFail(j) \/ GetOk(j)))
          /\ WF_vars(j \in DOMAIN task /\ RetryTimer(j))
          /\ WF_vars(j \in DOMAIN task /\ TaskSettle(j))

SpecFair == Spec /\ Fairness

(***************************************************************************)
(* Functions called on their own: one call per step, the argument drawn    *)
(* from a bounded set, no crawl in progress.                               *)
(***************************************************************************)
\* all sequences over S of length at most n
SeqsUpTo(S, n) == UNION {[1..k -> S] : k \in 0..n}

NoCrawl ==
    /\ processor = "processor"
    /\ items = <<>>
    /\ concurrency = 1
    /\ pc = "fn"
    /\ i = 0
    /\ results = <<>>
    /\ completed = 0
    /\ task = <<>>
    /\ trace = <<>>
    /\ notified = <<>>
    /\ sleeps = <<>>
    /\ pages = <<>>
    /\ errors = <<>>
    /\ rawUrls = <<>>
    /\ filter = NoFilter
    /\ totals = NoTotals
    /\ exported = <<>>
    /\ summary = NoSummary

crawlVars == <<processor, items, concurrency, pc, i, results, completed, task,
               trace, notified, sleeps, pages, errors, mainVars>>

InitFn == NoCrawl /\ FnIdle

\* spellings of two URLs with zero, one and two trailing slashes
DedupUrls ==
    {UrlPool[1], Slashed(UrlPool[1]), Slashed(Slashed(UrlPool[1])),
     UrlPool[2], Slashed(UrlPool[2])}

CallDeduplicateUrls ==
    \E urls \in SeqsUpTo(DedupUrls, MaxUrls) :
        /\ fnName = NoCall
        /\ fnName' = "deduplicateUrls"
        /\ fnArg' = urls
        /\ fnRet' = deduplicateUrls(urls)
        /\ UNCHANGED crawlVars

\* the success rate main computes, for any counts of successes and URLs
CallSuccessRate ==
    \E attempted \in 0..MaxAttempted : \E successes \in 0..attempted :
        /\ fnName = NoCall
        /\ fnName' = "successRate"
        /\ fnArg' = <<successes, attempted>>
        /\ fnRet' = SuccessRate(successes, attempted)
        /\ UNCHANGED crawlVars

\* the characters option values are made of
ArgChars == {"-", "0", "3", "x"}

\* main builds its config from the --concurrency option
CallParseArgs ==
    \E opt \in {NoOption} \cup {Option(text) : text \in SeqsUpTo(ArgChars, MaxArgLen)} :
        /\ fnName = NoCall
        /\ fnName' = "parseArgs"
        /\ fnArg' = opt
        /\ fnRet' = [concurrency |-> ConfigConcurrency(opt)]
        /\ UNCHANGED crawlVars

\* the errors a catch block of a crawl function can see
SampleErrors ==
    {ErrTimeout, ErrDns, ErrDnsNoConfig, ErrTlsAltname, ErrCertExpired, ErrReset,
     ErrRefused, ErrHttp404, ErrHttp503, ErrNetwork, ErrExtract}

\* what the catch block reports of an error
Report(err) == [status |-> getErrorStatus(err), message |-> getErrorMessage(err)]

\* two failures reported, one after the other
CallGetError ==
    \E e1, e2 \in SampleErrors :
        /\ fnName = NoCall
        /\ fnName' = "getErrorMessage"
        /\ fnArg' = <<e1, e2>>
        /\ fnRet' = <<Report(e1), Report(e2)>>
        /\ UNCHANGED crawlVars

\* the characters price texts are made of
PriceChars == {"0", "5", ".", ",", "N"}

\* price texts as product pages show them
SamplePrices ==
    {<<"7", "7", "0", " ", "€">>,
     <<"1", " ", "2", "5", "0", ",", "0", "0", " ", "€">>,
     <<"5", "0", "0", " ", "€">>,
     <<"1", ".", "2", "5", "0", ",", "5", "0", " ", "€">>,
     <<"N", "/", "A">>,
     <<" ", "€">>}

PriceTexts == SeqsUpTo(PriceChars, MaxPriceLen) \cup SamplePrices

\* a price text parsed and its price without VAT computed
CallParsePrice ==
    \E raw \in PriceTexts :
        /\ fnName = NoCall
        /\ fnName' = "parsePrice"
        /\ fnArg' = raw
        /\ fnRet' = [price |-> parsePrice(raw), excl |-> PriceExcl(parsePrice(raw))]
        /\ UNCHANGED crawlVars

\* variant rows as product pages hold them
SampleRows ==
    {[price |-> <<"7", "7", "0", " ", "€">>, color |-> "red", artNo |-> "AL153",
      green |-> TRUE, whText |-> "In stock"],
     [price |-> <<>>, color |-> "blue", artNo |-> "AL154",
      green |-> FALSE, whText |-> "Sold out"],
     [price |-> <<"N", "/", "A">>, color |-> "", artNo |-> "",
      green |-> FALSE, whText |-> ""]}

\* texts of the first price element of a page: none, blank, a price, ...
MainPrices ==
    {<<>>,
     <<" ">>,
     <<"5", "0", "0", " ", "€">>,
     <<" ", "5", "0", "0", " ", " ", "€", " ">>,
     <<"N", "/", "A">>}

ProductPages ==
    {[rows |-> rows, mainPrice |-> mainPrice] :
        rows \in SeqsUpTo(SampleRows, MaxRows), mainPrice \in MainPrices}

\* the variants of a product page extracted
CallExtractVariants ==
    \E page \in ProductPages :
        /\ fnName = NoCall
        /\ fnName' = "extractProduct"
        /\ fnArg' = page
        /\ fnRet' = extractVariants(page)
        /\ UNCHANGED crawlVars

\* the characters URL paths are made of
PathChars == {"/", "a", "c", "p", "1"}

\* paths as the shop's URLs have them
SamplePaths ==
    {<<"/", "a", "/", "4", "2", "/", "s", "o", "m", "e", "-", "s", "l", "u", "g">>,
     <<"/", "a", "/", "4", "2">>,
     <<"/", "a", "/", "x", "/">>,
     <<"/", "c", "/", "a", "/", "1", "/">>,
     <<"/", "c", "/", "p", "/", "x">>,
     <<"/", "p", "/", "g", "a", "l", "l", "e", "r", "y">>,
     <<"/", "G", "a", "l", "l", "e", "r", "y", "/", "1">>,
     <<"/", "c", "h", "o", "o", "s", "e", "-", "x">>,
     <<"/", "a", "b", "o", "u", "t">>,
     <<"/", "a", "/", "7", "/", "p", "/">>}

\* the JSON-LD blocks of pages: none, without @type, with a schema.org type
JsonLdBlocks ==
    {NoJsonLd, JsonLd(""), JsonLd("Product"), JsonLd("Article"), JsonLd("NewsArticle"),
     JsonLd("BlogPosting"), JsonLd("Organization")}

\* a page classified by its path and its JSON-LD
CallClassifyPage ==
    \E path \in SeqsUpTo(PathChars, MaxPathLen) \cup SamplePaths :
        \E jsonLd \in (IF path \in SamplePaths THEN JsonLdBlocks
                       ELSE {NoJsonLd, JsonLd("Product"), JsonLd("Article")}) :
            /\ fnName = NoCall
            /\ fnName' = "classifyPage"
            /\ fnArg' = [path |-> path, jsonLd |-> jsonLd]
            /\ fnRet' = classifyPage(path, jsonLd)
            /\ UNCHANGED crawlVars

\* n words "ab", each followed by one blank
WordsText(n) == [k \in 1..(3 * n) |-> IF k % 3 = 0 THEN " " ELSE IF k % 3 = 1 THEN "a" ELSE "b"]

\* numbers of words of a body: few, and around the cut (667 words are 2000 characters)
BodyWords == {0, 1, 2, 3, 666, 667, 668, 700}

NoContainers == [k \in DOMAIN CONTENT_SELECTORS |-> NoElement]

\* pages without containers: the body is the content
BodyPages ==
    {[containers |-> NoContainers, body |-> body] :
        body \in {WordsText(n) : n \in BodyWords}
                    \cup {<<" ", " ", "a", " ", " ", "b", " ">>}}

\* what selector k finds: nothing, an element without text, one with text
Found(k, kind) ==
    IF kind = "none" THEN NoElement
    ELSE IF kind = "empty" THEN Element(<<>>)
    ELSE Element(<<DigitChars[k + 1]>>)

\* the text of the elements found, in document order
RECURSIVE TextsFrom(_, _)
TextsFrom(containers, k) ==
    IF k > Len(containers) THEN <<>>
    ELSE (IF containers[k] = NoElement THEN <<>> ELSE containers[k].text)
             \o TextsFrom(containers, k + 1)

\* pages with containers: the text of the body is the text of its containers,
\* alone or after text that is in no container
ContainerPages ==
    {[containers |-> [k \in DOMAIN CONTENT_SELECTORS |-> Found(k, kinds[k])],
      body |-> outside
                 \o TextsFrom([k \in DOMAIN CONTENT_SELECTORS |-> Found(k, kinds[k])], 1)] :
        kinds \in [DOMAIN CONTENT_SELECTORS -> {"none", "empty", "text"}],
        outside \in {<<>>, <<"b">>}}

\* the content and the word count of a page
CallExtractContent ==
    \E page \in BodyPages \cup ContainerPages :
        /\ fnName = NoCall
        /\ fnName' = "extractContent"
        /\ fnArg' = page
        /\ fnRet' = [content |-> extractContent(page),
                     word_count |-> WordCount(page, extractContent(page))]
        /\ UNCHANGED crawlVars

\* the offers nodes of pages
SampleOffers ==
    {NoOffers,
     Offers(Undefined, Undefined, Undefined),
     Offers(Defined(<<"9">>), Undefined, Defined(<<"E", "U", "R">>)),
     Offers(Undefined, Defined(<<"8">>), Undefined)}

\* pages by their price sources.  An absent itemprop element has no content
\* attribute and the text "".
PricePages ==
    {[offers |-> offers, itempropContent |-> content, itempropText |-> text,
      classText |-> classText, currencyContent |-> currency] :
        offers \in SampleOffers,
        content \in {Undefined, Defined(<<>>), Defined(<<"7">>)},
        text \in {<<>>, <<" ", "6", " ">>},
        currency \in {Undefined, Defined(<<"C", "Z", "K">>)},
        classText \in {<<>>, <<"5", " ", "€">>}}

\* the price and currency of a page resolved
CallExtractPrice ==
    \E page \in PricePages :
        /\ fnName = NoCall
        /\ fnName' = "extractPrice"
        /\ fnArg' = page
        /\ fnRet' = extractPrice(page)
        /\ UNCHANGED crawlVars

\* the host of the page crawled
PageHost == <<"a", ".", "i", "o">>

\* hrefs of the page's own host and relative ones
OwnHrefs ==
    {<<"/", "a", "b", "o", "u", "t">>,
     <<"h", "t", "t", "p", ":", "/", "/", "a", ".", "i", "o", "/", "x">>,
     <<"h", "t", "t", "p", "s", ":", "/", "/", "A", ".", "I", "O", "/", "y">>,
     <<"h", "t", "t", "p", ":", "/", "/", "u", "@", "a", ".", "i", "o", ":", "8", "0", "8", "0", "/", "z">>}

\* hrefs that parse, with another host name or none
ForeignHrefs ==
    {<<"h", "t", "t", "p", ":", "/", "/", "b", ".", "i", "o", "/">>,
     <<"j", "a", "v", "a", "s", "c", "r", "i", "p", "t", ":", "v", "o", "i", "d", "(", "0", ")">>,
     <<"H", "T", "T", "P", ":", "b", ".", "i", "o">>}

\* hrefs that are excluded or do not parse without a base
OtherHrefs ==
    {<<>>,
     <<"#", "t", "o", "p">>,
     <<"m", "a", "i", "l", "t", "o", ":", "a", "@", "b", ".", "i", "o">>,
     <<"t", "e", "l", ":", "1", "2", "3">>,
     <<"/", "/", "a", ".", "i", "o", "/", "x">>,
     <<"p", "a", "g", "e", ".", "h", "t", "m", "l">>,
     <<"h", "t", "t", "p", ":", "/", "/">>,
     <<"?", "q", "=", "1">>}

SampleHrefs == OwnHrefs \cup ForeignHrefs \cup OtherHrefs

\* the links of a page with up to MaxAnchors anchors counted
CallExtractLinks ==
    \E hrefs \in SeqsUpTo(SampleHrefs, MaxAnchors) :
        /\ fnName = NoCall
        /\ fnName' = "extractLinks"
        /\ fnArg' = hrefs
        /\ fnRet' = extractLinks(hrefs, PageHost)
        /\ UNCHANGED crawlVars

\* values of an iframe's source attributes: absent, empty, or an address
SampleSources ==
    {Undefined, Defined(<<>>),
     Defined(<<"y", "o", "u", "t", "u", "b", "e", ".", "c", "o", "m", "/", "e", "/", "1">>),
     Defined(<<"y", "o", "u", "t", "u", "b", "e", "-", "n", "o", "c", "o", "o", "k", "i", "e", ".", "c", "o", "m", "/", "e", "/", "2">>),
     Defined(<<"v", ".", "i", "o", "/", "3">>)}

Iframes ==
    {[privacySrc |-> p, src |-> a, dataSrc |-> d] :
        p \in SampleSources, a \in SampleSources, d \in SampleSources}

\* the embed of one iframe of an article body
CallGetIframeSrc ==
    \E el \in Iframes :
        /\ fnName = NoCall
        /\ fnName' = "getIframeSrc"
        /\ fnArg' = el
        /\ fnRet' = EmbedOf(el)
        /\ UNCHANGED crawlVars

NextFn ==
    \/ CallDeduplicateUrls
    \/ CallSuccessRate
    \/ CallParseArgs
    \/ CallGetError
    \/ CallParsePrice
    \/ CallExtractVariants
    \/ CallClassifyPage
    \/ CallExtractContent
    \/ CallExtractPrice
    \/ CallExtractLinks
    \/ CallGetIframeSrc

SpecFn == InitFn /\ [][NextFn]_vars

(***************************************************************************)
(* Properties.                                                             *)
(***************************************************************************)
Positions == DOMAIN task

\* the window (0-based) of the item at position j
Window(j) == (j - 1) \div concurrency

\* the number of windows of the run: ceil(n / concurrency)
Windows == (Len(items) + concurrency - 1) \div concurrency

InFlightCount == Cardinality({j \in Positions : InFlight(j)})

Returned == pc \in {"returned", "done"}

\* C1: at no point are more than `concurrency` tasks launched and not yet
\* settled, whatever the item list, the concurrency and the order in which
\* the tasks complete.
C1_AtMostConcurrencyInFlight == InFlightCount <= concurrency

\* A full window of two tasks is in flight while a further item waits.
C1_Witness ==
    /\ concurrency = 2
    /\ Len(items) > concurrency
    /\ InFlightCount = concurrency
    /\ \E j \in Positions : task[j].st = "idle"

\* the item a result value was computed for, where the value names it
ResultNames(r, url) ==
    IF ~r.success
    THEN IF processor = "crawlPage" THEN r.error.url = url ELSE r.url = url
    ELSE IF processor = "crawlPage" THEN r.data.url = url
    ELSE IF processor = "crawlProduct" THEN r.data.source_url = url
    ELSE IF processor = "processor" THEN r.value = url
    ELSE TRUE

\* C2: the result array holds, at every index, the result of the task run on
\* the item at that index; when runInBatches returns the array is complete,
\* whatever order the tasks of a window settled in.
C2_ResultsInInputOrder ==
    /\ \A k \in DOMAIN results :
          /\ k \in Positions
          /\ task[k].st = "resolved"
          /\ results[k] = task[k].result
          /\ ResultNames(results[k], items[k])
    /\ Returned => Len(results) = Len(items)

\* A run returned although the second item completed before the first.
C2_Witness ==
    /\ Returned
    /\ Len(items) >= 2
    /\ notified[1].item = items[2]
    /\ results[1] # results[2]

\* C3: no task of a later window is launched until every task of every
\* earlier window has settled.
C3_WindowBarrier ==
    \A a, b \in Positions :
        (Window(a) < Window(b) /\ task[b].st # "idle") => Settled(a)

\* A second window is in flight behind a first window of two tasks.
C3_Witness ==
    /\ concurrency = 2
    /\ \E b \in Positions : Window(b) = 1 /\ InFlight(b)

Max(a, b) == IF a > b THEN a ELSE b

\* the windows whose results have been pushed
WindowsPushed == (Len(results) + concurrency - 1) \div concurrency

\* C4: one inter-batch delay is taken after each window except the last: the
\* k-th delay follows the k-th window, a window is launched only after the
\* delays of all windows before it, and a run that returns has taken
\* ceil(n / concurrency) - 1 delays (none for a single window or no item).
C4_OneDelayBetweenWindows ==
    /\ \A k \in DOMAIN sleeps :
          sleeps[k] = [after |-> (k - 1) * concurrency, ms |-> delayMs]
    /\ Len(sleeps) = Min(WindowsPushed, Max(Windows - 1, 0))
    /\ \A j \in Positions : task[j].st # "idle" => Len(sleeps) >= Window(j)
    /\ pc = "sleep" => Len(sleeps) = i \div concurrency + 1
    /\ Returned => Len(sleeps) = Max(Windows - 1, 0)

\* A run of three windows returned after two delays.
C4_Witness == Returned /\ Windows = 3 /\ Len(sleeps) = 2

\* C5: onItemDone is invoked once per item and before runInBatches returns;
\* the counts passed are strictly increasing in invocation order, start at 1,
\* never exceed the total and end at the total.
C5_OneNotificationPerItem ==
    /\ \A a, b \in DOMAIN notified :
          a < b => /\ notified[a].completed < notified[b].completed
                   /\ notified[a].item # notified[b].item
    /\ \A k \in DOMAIN notified :
          /\ notified[k].total = Len(items)
          /\ notified[k].completed >= 1
          /\ notified[k].completed <= notified[k].total
          /\ \E j \in Positions : /\ items[j] = notified[k].item
                                  /\ task[j].st = "resolved"
                                  /\ task[j].result = notified[k].result
    /\ notified # <<>> => notified[1].completed = 1
    /\ \A j \in Positions :
          task[j].st = "resolved" => \E k \in DOMAIN notified : notified[k].item = items[j]
    /\ Returned =>
          /\ Len(notified) = Len(items)
          /\ notified # <<>> => notified[Len(notified)].completed = Len(items)

\* A run of three items returned, the callback first called for the second item.
C5_Witness ==
    /\ Returned
    /\ Len(notified) = 3
    /\ notified[1].item = items[2]
    /\ notified[3].completed = 3

Crawling == processor \in CrawlProcessors

\* the events of one kind in the trace of the task at position j
EventsOf(j, op) == SelectSeq(trace[j], LAMBDA e : e.op = op)

\* the errors of the failed GETs of the task at position j, in order
FetchFailures(j) == SelectSeq(EventsOf(j, "got"), LAMBDA e : ~e.arg.ok)

\* C6: when both attempts of a fetch fail, the crawl function returns the
\* Failure built from the error of the first attempt (its message and, for
\* crawlPage, its status code), never from the error of the second.
C6_FirstErrorSurfaces ==
    \A j \in Positions :
        (Crawling /\ Len(FetchFailures(j)) >= 2) =>
            LET first == FetchFailures(j)[1].arg.err IN
            /\ task[j].st = "resolved"
            /\ task[j].result = Failure(processor, items[j], first)
            /\ processor = "crawlPage" =>
                  /\ task[j].result.error.error_message = getErrorMessage(first)
                  /\ task[j].result.error.status_code = getErrorStatus(first)
            /\ processor # "crawlPage" =>
                  task[j].result.error = getErrorMessage(first)

\* crawlPage answered 503 and then timed out: the Failure carries the 503.
C6_Witness ==
    /\ processor = "crawlPage"
    /\ \E j \in Positions :
          /\ Len(FetchFailures(j)) = 2
          /\ FetchFailures(j)[1].arg.err = ErrHttp503
          /\ FetchFailures(j)[2].arg.err = ErrTimeout
          /\ task[j].result.error.status_code = 503
          /\ task[j].result.error.error_message = "HTTP 503: Service Unavailable"
          /\ getErrorMessage(ErrTimeout) # task[j].result.error.error_message

\* the calls a crawl may make, in the order it may make them
TraceShape(t) ==
    /\ Len(t) <= 6
    /\ Len(t) >= 1 => t[1] = Event("get", 1)
    /\ Len(t) >= 2 => t[2].op = "got"
    /\ Len(t) >= 3 => IF t[2].arg.ok
                      THEN t[3].op = "extract" /\ Len(t) = 3
                      ELSE t[3] = Event("sleep", RetryDelayMs)
    /\ Len(t) >= 4 => t[4] = Event("get", 2)
    /\ Len(t) >= 5 => t[5].op = "got"
    /\ Len(t) >= 6 => t[5].arg.ok /\ t[6].op = "extract"

\* C7: withRetry runs the operation once when the first attempt succeeds
\* (no delay), and otherwise waits 1000 ms and runs it exactly once more,
\* whose result is returned when it succeeds; there is no third attempt.
C7_AtMostOneRetry ==
    \A j \in Positions :
        Crawling =>
            /\ TraceShape(trace[j])
            /\ Len(EventsOf(j, "get")) <= 2
            /\ Len(EventsOf(j, "sleep")) <= 1
            /\ Len(EventsOf(j, "sleep")) = Len(FetchFailures(j)) \/ Len(FetchFailures(j)) = 2
            /\ task[j].st = "sleep" <=> (Len(trace[j]) = 3 /\ trace[j][3].op = "sleep")
            /\ (Len(trace[j]) = 6 /\ ~trace[j][6].arg.threw) =>
                  /\ task[j].st = "resolved"
                  /\ task[j].result =
                        Success(processor, items[j], trace[j][5].arg, trace[j][6].arg)

\* A first attempt failed and the second one succeeded: the crawl is a Success.
C7_Witness ==
    \E j \in Positions :
        /\ Crawling
        /\ Len(FetchFailures(j)) = 1
        /\ Len(EventsOf(j, "get")) = 2
        /\ task[j].st = "resolved"
        /\ task[j].result.success

IsSuccess(r) == r.success /\ "data" \in DOMAIN r /\ "error" \notin DOMAIN r
IsFailure(r) == ~r.success /\ "error" \in DOMAIN r /\ "data" \notin DOMAIN r

\* C8: after a crawl run the result array has one outcome per input URL, in
\* the length of the URL list, each either a Success or a Failure and never
\* both or neither; main's two lists together hold each outcome once.
C8_OneOutcomePerUrl ==
    pc = "done" =>
        /\ Len(results) = Len(items)
        /\ \A k \in DOMAIN results :
              /\ IsSuccess(results[k]) # IsFailure(results[k])
              /\ ResultNames(results[k], items[k])
        /\ Len(pages) + Len(errors) = Len(items)
        /\ \A k \in DOMAIN pages : IsSuccess(pages[k])
        /\ \A k \in DOMAIN errors : IsFailure(errors[k])

\* A finished run of three URLs with a Success and a Failure among them.
C8_Witness ==
    /\ pc = "done"
    /\ Len(items) = 3
    /\ pages # <<>>
    /\ errors # <<>>

\* the crawl at position j has failed: both fetches, or the extraction
CrawlFailed(j) ==
    \/ Len(FetchFailures(j)) = 2
    \/ \E k \in DOMAIN trace[j] : trace[j][k].op = "extract" /\ trace[j][k].arg.threw

\* C9: the crawl functions never reject: a crawl whose fetches or whose
\* extraction failed resolves with a Failure, runInBatches does not reject,
\* the remaining URLs are still fetched and the full result array is returned.
C9_FailureNeverAbortsBatch ==
    Crawling =>
        /\ pc # "rejected"
        /\ \A j \in Positions :
              /\ task[j].st # "rejected"
              /\ CrawlFailed(j) => task[j].st = "resolved" /\ IsFailure(task[j].result)
        /\ pc \notin {"done", "exit"} => ENABLED Next
        /\ Returned =>
              /\ Len(results) = Len(items)
              /\ \A j \in Positions : Len(EventsOf(j, "get")) >= 1

\* The first URL failed in its extraction, the third one was still crawled.
C9_Witness ==
    /\ pc = "done"
    /\ Len(items) = 3
    /\ concurrency = 2
    /\ \E k \in DOMAIN trace[1] : trace[1][k].op = "extract" /\ trace[1][k].arg.threw
    /\ Len(FetchFailures(2)) = 2
    /\ results[3].success

\* C10: per URL at most two GETs are issued and extraction runs at most
\* once; an extraction that throws ends the crawl as a Failure carrying the
\* extraction's error, with no further fetch and no second extraction.
C10_RetryOnlyAroundFetch ==
    \A j \in Positions :
        Crawling =>
            /\ Len(EventsOf(j, "get")) <= 2
            /\ Len(EventsOf(j, "extract")) <= 1
            /\ \A k \in DOMAIN trace[j] :
                  (trace[j][k].op = "extract" /\ trace[j][k].arg.threw) =>
                      /\ k = Len(trace[j])
                      /\ task[j].st = "resolved"
                      /\ task[j].result = Failure(processor, items[j], ErrExtract)

\* An extraction threw after a first successful fetch: one GET, one Failure.
C10_Witness ==
    \E j \in Positions :
        /\ Crawling
        /\ trace[j] # <<>>
        /\ trace[j][Len(trace[j])].op = "extract"
        /\ trace[j][Len(trace[j])].arg.threw
        /\ Len(EventsOf(j, "get")) = 1
        /\ ~task[j].result.success

(***************************************************************************)
(* C11: the list deduplicateUrls returns is no longer than its input, is   *)
(* a subsequence of the input (the URLs kept stand in the order of their   *)
(* first occurrence), and deduplicating it again changes nothing.          *)
(***************************************************************************)
\* the elements of s at the positions in P, in order
RECURSIVE Restrict(_, _)
Restrict(s, P) ==
    IF s = <<>> THEN <<>>
    ELSE Restrict(SubSeq(s, 1, Len(s) - 1), P)
             \o (IF Len(s) \in P THEN <<s[Len(s)]>> ELSE <<>>)

IsSubsequence(t, s) == \E P \in SUBSET DOMAIN s : t = Restrict(s, P)

Deduplicated == fnName = "deduplicateUrls"

C11_DedupShrinksKeepsOrderIdempotent ==
    Deduplicated =>
        /\ Len(fnRet) <= Len(fnArg)
        /\ IsSubsequence(fnRet, fnArg)
        /\ deduplicateUrls(fnRet) = fnRet

\* a list with duplicates in both spellings, deduplicated to a shorter one
C11_Witness ==
    /\ Deduplicated
    /\ fnArg = <<Slashed(UrlPool[1]), UrlPool[2], UrlPool[1]>>
    /\ fnRet = <<Slashed(UrlPool[1]), UrlPool[2]>>

(***************************************************************************)
(* C12: the key of a URL is the URL with exactly one trailing "/" removed. *)
(* The output holds, in its original spelling, exactly the first URL of    *)
(* each key; no two outputs share a key.  "x" and "x/" collapse to the one *)
(* that comes first; "x/" and "x//" have different keys and both stay.     *)
(***************************************************************************)
KeyOf(url) ==
    IF Len(url) > 0 /\ url[Len(url)] = "/" THEN SubSeq(url, 1, Len(url) - 1) ELSE url

FirstOfKey(s) == {k \in DOMAIN s : \A h \in 1..(k - 1) : KeyOf(s[h]) # KeyOf(s[k])}

C12_FirstSpellingPerKey ==
    Deduplicated =>
        /\ fnRet = Restrict(fnArg, FirstOfKey(fnArg))
        /\ \A h, k \in DOMAIN fnRet : h # k => KeyOf(fnRet[h]) # KeyOf(fnRet[k])

\* "x/" before "x" and "x//": "x" is dropped, "x//" stays
C12_Witness ==
    /\ Deduplicated
    /\ fnArg = <<Slashed(UrlPool[1]), UrlPool[1], Slashed(Slashed(UrlPool[1]))>>
    /\ fnRet = <<Slashed(UrlPool[1]), Slashed(Slashed(UrlPool[1]))>>

(***************************************************************************)
(* C13: when the URL list is empty after deduplication and filtering, main *)
(* returns before scheduling: runInBatches is never entered, no fetch task *)
(* is launched, nothing is notified or slept, and apart from the URL list  *)
(* no result is exported and no summary is written.                        *)
(***************************************************************************)
EmptyAfterFilter ==
    /\ processor \in CrawlProcessors
    /\ pc # "main"
    /\ totals.afterFilter = 0

C13_EmptyListEndsBeforeScheduling ==
    EmptyAfterFilter =>
        /\ pc = "exit"
        /\ i = 0 /\ completed = 0
        /\ results = <<>> /\ notified = <<>> /\ sleeps = <<>>
        /\ \A j \in DOMAIN task : task[j] = IdleTask /\ trace[j] = <<>>
        /\ pages = <<>> /\ errors = <<>>
        /\ exported = <<"exportUrlList">>
        /\ ~summary.written

\* a sitemap with URLs, all of them removed by the filter
C13_Witness ==
    /\ EmptyAfterFilter
    /\ pc = "exit"
    /\ totals.afterDedup > 0
    /\ filter # NoFilter

(***************************************************************************)
(* C14: the success rate is successes / attempted, as a percentage with    *)
(* one decimal; for zero attempted URLs it is "0%", computed without a     *)
(* division.                                                               *)
(***************************************************************************)
RateComputed == fnName = "successRate"

\* s reads as <digits>.<digit>% : the number of tenths of a percent it states
IsPercentage(s) ==
    /\ Len(s) >= 4
    /\ s[Len(s)] = "%"
    /\ s[Len(s) - 2] = "."
    /\ IsDigit(s[Len(s) - 1])
    /\ \A k \in 1..(Len(s) - 3) : IsDigit(s[k])

TenthsOf(s) == 10 * NumberOf(SubSeq(s, 1, Len(s) - 3)) + DigitVal(s[Len(s) - 1])

Distance(a, b) == IF a >= b THEN a - b ELSE b - a

C14_SuccessRateGuardsZero ==
    RateComputed =>
        LET successes == fnArg[1]
            attempted == fnArg[2]
        IN  IF attempted = 0
            THEN fnRet = <<"0", "%">>
            ELSE /\ IsPercentage(fnRet)
                 /\ 2 * Distance(TenthsOf(fnRet) * attempted, 1000 * successes)
                        <= attempted

\* no URL attempted: the rate is reported as "0%"
C14_Witness == RateComputed /\ fnArg = <<0, 0>> /\ fnRet = <<"0", "%">>

(***************************************************************************)
(* C15: the CrawlConfig main builds has concurrency >= 1 whatever the      *)
(* --concurrency option holds (absent, 0, negative, not a number).         *)
(***************************************************************************)
ConfigBuilt == fnName = "parseArgs"

C15_ConcurrencyAtLeastOne == ConfigBuilt => fnRet.concurrency >= 1

\* --concurrency=-3 gives a config with concurrency -3
C15_Witness ==
    /\ ConfigBuilt
    /\ fnArg = Option(<<"-", "3">>)
    /\ fnRet.concurrency = -3

(***************************************************************************)
(* C16: timeout, DNS failure, TLS/certificate failure, connection reset,   *)
(* connection refused and HTTP error response are reported with pairwise   *)
(* distinct messages, the HTTP one made of the status code and the reason; *)
(* any other error is reported with its underlying message.  The status    *)
(* reported is the HTTP status exactly when the error carries a response,  *)
(* and null otherwise.                                                     *)
(***************************************************************************)
ErrorsReported == fnName = "getErrorMessage"

CarriesResponse(err) == err.response # NoResponse

\* the kind of a failure, by the code the network layer gives it
KindOf(err) ==
    IF ~err.axios THEN "other"
    ELSE IF CarriesResponse(err) THEN "http"
    ELSE IF err.code = "ECONNABORTED" THEN "timeout"
    ELSE IF err.code = "ENOTFOUND" THEN "dns"
    ELSE IF err.code \in {"ERR_TLS_CERT_ALTNAME_INVALID", "CERT_HAS_EXPIRED"} THEN "tls"
    ELSE IF err.code = "ECONNRESET" THEN "reset"
    ELSE IF err.code = "ECONNREFUSED" THEN "refused"
    ELSE "other"

C16_ErrorTaxonomy ==
    ErrorsReported =>
        /\ (KindOf(fnArg[1]) # "other" /\ KindOf(fnArg[2]) # "other"
              /\ KindOf(fnArg[1]) # KindOf(fnArg[2]))
               => fnRet[1].message # fnRet[2].message
        /\ \A k \in 1..2 :
              LET err == fnArg[k] IN
              /\ KindOf(err) = "http" =>
                    fnRet[k].message = "HTTP " \o ToString(err.response.status)
                                           \o ": " \o err.response.statusText
              /\ KindOf(err) = "other" => fnRet[k].message = err.message
              /\ fnRet[k].status =
                    (IF CarriesResponse(err) THEN err.response.status ELSE null)

\* a certificate failure and an HTTP 503, reported differently
C16_Witness ==
    /\ ErrorsReported
    /\ fnArg = <<ErrTlsAltname, ErrHttp503>>
    /\ fnRet = <<[status |-> null, message |-> "SSL certificate error"],
                 [status |-> 503, message |-> "HTTP 503: Service Unavailable"]>>

(***************************************************************************)
(* C17: for every price text that parses, the price without VAT is the     *)
(* parsed price divided by 1.21, written with exactly two decimals (the    *)
(* nearest hundredth); "770 €" parses to 770 and gives "636.36".           *)
(***************************************************************************)
PriceParsed == fnName = "parsePrice"

HasPrice == fnRet.price # NoPrice

\* s reads as <digits>.<digit><digit>
IsTwoDecimals(s) ==
    /\ Len(s) >= 4
    /\ s[Len(s) - 2] = "."
    /\ \A k \in DOMAIN s : k # Len(s) - 2 => IsDigit(s[k])

\* the number of hundredths a two-decimal string states
HundredthsOf(s) ==
    100 * NumberOf(SubSeq(s, 1, Len(s) - 3)) + NumberOf(SubSeq(s, Len(s) - 1, Len(s)))

\* c hundredths is a nearest hundredth to (mant / 10^scale) / 1.21
NearestToQuotient(c, mant, scale) ==
    2 * Distance(121 * c * Pow10(scale), 10000 * mant) <= 121 * Pow10(scale)

\* a text of digits, blanks and currency signs only, with a digit
PlainAmount(raw) ==
    /\ \E k \in DOMAIN raw : IsDigit(raw[k])
    /\ \A k \in DOMAIN raw : IsDigit(raw[k]) \/ raw[k] \in {" ", "€"}

C17_ExclVatIsPriceOver121 ==
    PriceParsed =>
        /\ HasPrice =>
              /\ IsTwoDecimals(fnRet.excl)
              /\ NearestToQuotient(HundredthsOf(fnRet.excl),
                                   fnRet.price.mant, fnRet.price.scale)
        /\ PlainAmount(fnArg) =>
              /\ HasPrice
              /\ fnRet.price.scale = 0
              /\ fnRet.price.mant = NumberOf(SelectSeq(fnArg, IsDigit))
        /\ fnArg = <<"7", "7", "0", " ", "€">> =>
              /\ HasPrice
              /\ fnRet.price.mant = 770 /\ fnRet.price.scale = 0
              /\ fnRet.excl = <<"6", "3", "6", ".", "3", "6">>

\* "770 €": price 770, without VAT "636.36"
C17_Witness ==
    /\ PriceParsed
    /\ fnArg = <<"7", "7", "0", " ", "€">>
    /\ HasPrice
    /\ fnRet.price.mant = 770
    /\ fnRet.excl = <<"6", "3", "6", ".", "3", "6">>

(***************************************************************************)
(* C18: "1 250,00 €" parses to 1250.00 (the blank is a thousands           *)
(* separator, the comma the decimal sign).  As the claim has it, the price *)
(* without VAT is "1032.23".                                               *)
(***************************************************************************)
CzechPrice == <<"1", " ", "2", "5", "0", ",", "0", "0", " ", "€">>

ParsesTo1250 == HasPrice /\ fnRet.price.mant = 1250 /\ fnRet.price.scale = 0

C18_CzechPriceGives103223 ==
    (PriceParsed /\ fnArg = CzechPrice) =>
        /\ ParsesTo1250
        /\ fnRet.excl = <<"1", "0", "3", "2", ".", "2", "3">>

(***************************************************************************)
(* C18, amended: "1 250,00 €" parses to 1250.00 and the price without VAT  *)
(* is 1250 / 1.21 to two decimals, "1033.06".                              *)
(***************************************************************************)
C18_CzechPriceGives103306 ==
    (PriceParsed /\ fnArg = CzechPrice) =>
        /\ ParsesTo1250
        /\ fnRet.excl = <<"1", "0", "3", "3", ".", "0", "6">>

C18_Witness ==
    /\ PriceParsed
    /\ fnArg = CzechPrice
    /\ ParsesTo1250
    /\ fnRet.excl = <<"1", "0", "3", "3", ".", "0", "6">>

(***************************************************************************)
(* C19: a price text without any digit ("N/A", or separators only) gives   *)
(* no price: parsePrice returns null, never zero, and the price without    *)
(* VAT is the empty string.                                                *)
(***************************************************************************)
NoDigit(raw) == \A k \in DOMAIN raw : ~IsDigit(raw[k])

C19_UnparseableIsNoPrice ==
    (PriceParsed /\ NoDigit(fnArg)) =>
        /\ fnRet.price = NoPrice
        /\ fnRet.excl = <<>>

\* separators only: no price
C19_Witness ==
    /\ PriceParsed
    /\ fnArg = <<".", ",">>
    /\ fnRet.price = NoPrice
    /\ fnRet.excl = <<>>

(***************************************************************************)
(* C20: a product page without variant rows and with a displayed price     *)
(* gives exactly one variant, built from that price ("500 €" gives the     *)
(* price without VAT "413.22"); without rows and without a displayed price *)
(* it gives no variant; with rows it gives one variant per row and none    *)
(* from the displayed price.  So there is at least one variant whenever    *)
(* there is a row or a displayed price.                                    *)
(***************************************************************************)
VariantsExtracted == fnName = "extractProduct"

\* the page shows a price: its price text has a character that is no blank
PriceDisplayed == \E k \in DOMAIN fnArg.mainPrice : fnArg.mainPrice[k] # " "

FiveHundred == <<"5", "0", "0", " ", "€">>

C20_VariantFallback ==
    VariantsExtracted =>
        /\ (fnArg.rows = <<>> /\ PriceDisplayed) =>
              /\ Len(fnRet) = 1
              /\ fnRet[1].color = "" /\ fnRet[1].art_no = ""
              /\ IsSubsequence(fnRet[1].price_incl_vat, fnArg.mainPrice)
              /\ fnRet[1].price_incl_vat = FiveHundred =>
                    fnRet[1].price_excl_vat = <<"4", "1", "3", ".", "2", "2">>
              /\ fnArg.mainPrice = FiveHundred => fnRet[1].price_incl_vat = FiveHundred
        /\ (fnArg.rows = <<>> /\ ~PriceDisplayed) => fnRet = <<>>
        /\ fnArg.rows # <<>> =>
              /\ Len(fnRet) = Len(fnArg.rows)
              /\ \A k \in DOMAIN fnRet :
                    /\ fnRet[k].color = fnArg.rows[k].color
                    /\ fnRet[k].art_no = fnArg.rows[k].artNo
        /\ (fnArg.rows # <<>> \/ PriceDisplayed) => Len(fnRet) >= 1

\* no rows and "500 €": one variant, "413.22" without VAT
C20_Witness ==
    /\ VariantsExtracted
    /\ fnArg.rows = <<>>
    /\ fnArg.mainPrice = FiveHundred
    /\ Len(fnRet) = 1
    /\ fnRet[1].price_excl_vat = <<"4", "1", "3", ".", "2", "2">>

(***************************************************************************)
(* C21: classifyPage tests the path first, in the priority article,        *)
(* category, product, gallery, and the first pattern that matches decides  *)
(* whatever JSON-LD says (/a/42/some-slug is "article" for every @type).   *)
(* Only when no pattern matches is the JSON-LD @type read: Product gives   *)
(* "product", the article types give "article"; otherwise "page".          *)
(***************************************************************************)
PageClassified == fnName = "classifyPage"

\* the first position of pat in str, 0 if there is none
FirstAt(str, pat) ==
    LET starts == {k \in 1..(Len(str) - Len(pat) + 1) :
                      SubSeq(str, k, k + Len(pat) - 1) = pat}
    IN  IF starts = {} THEN 0 ELSE CHOOSE k \in starts : \A h \in starts : k <= h

\* /a/<digits>/ somewhere in the path
HasArticleShape(path) ==
    \E k \in DOMAIN path : \E n \in 1..Len(path) :
        /\ k + 3 + n <= Len(path)
        /\ path[k] = "/" /\ path[k + 1] = "a" /\ path[k + 2] = "/"
        /\ \A h \in 1..n : IsDigit(path[k + 2 + h])
        /\ path[k + 3 + n] = "/"

HasCategoryShape(path) ==
    FirstAt(path, <<"/", "c", "/">>) > 0
        \/ FirstAt(path, <<"/", "c", "h", "o", "o", "s", "e", "-">>) > 0

HasProductShape(path) == FirstAt(path, <<"/", "p", "/">>) > 0

HasGalleryWord(path) ==
    \E k \in DOMAIN path :
        /\ k + 6 <= Len(path)
        /\ path[k] \in {"g", "G"} /\ path[k + 1] \in {"a", "A"}
        /\ path[k + 2] \in {"l", "L"} /\ path[k + 3] \in {"l", "L"}
        /\ path[k + 4] \in {"e", "E"} /\ path[k + 5] \in {"r", "R"}
        /\ path[k + 6] \in {"y", "Y"}

ContentExtracted == fnName = "extractContent"

\* the words of a text: its maximal runs of characters that are no blanks
WordStarts(text) ==
    {k \in DOMAIN text : text[k] # " " /\ (k = 1 \/ text[k - 1] = " ")}

\* the text the content is taken from, on a page without containers
WholeText == fnArg.body

C22_WordCountOfUntruncatedText ==
    (ContentExtracted /\ fnArg.containers = NoContainers) =>
        /\ Len(fnRet.content) <= 2000
        /\ fnRet.word_count = Cardinality(WordStarts(WholeText))

\* 700 words in 2099 characters: the content is cut, and only 667 words are counted
C22_Witness ==
    /\ ContentExtracted
    /\ fnArg.containers = NoContainers
    /\ Cardinality(WordStarts(WholeText)) = 700
    /\ Len(fnRet.content) = 2000
    /\ fnRet.word_count = 667

(***************************************************************************)
(* C23: the content is the text of the first container, in the order main, *)
(* article, .main-content, .content, #content, .page-content, whose text   *)
(* is not empty; a container that exists without text does not end the     *)
(* walk; the body is used only when no container has text.                 *)
(***************************************************************************)
HasText(k) == fnArg.containers[k] # NoElement /\ fnArg.containers[k].text # <<>>

C23_FirstNonEmptyContainer ==
    ContentExtracted =>
        /\ \A k \in DOMAIN fnArg.containers :
              (HasText(k) /\ \A h \in 1..(k - 1) : ~HasText(h))
                  => fnRet.content = fnArg.containers[k].text
        /\ (\A k \in DOMAIN fnArg.containers : ~HasText(k))
              => fnRet.content = fnArg.body

\* an empty <main> before an <article> with text: the content is the body
C23_Witness ==
    /\ ContentExtracted
    /\ fnArg.containers[1] = Element(<<>>)
    /\ fnArg.containers[2] = Element(<<"2">>)
    /\ fnArg.body = <<"b", "2">>
    /\ fnRet.content = <<"b", "2">>

(***************************************************************************)
(* C24: the price is the first non-empty one of (1) the JSON-LD offers     *)
(* price or lowPrice, (2) the itemprop="price" content attribute or        *)
(* element text, (3) the .price / .product-price text without its          *)
(* non-numeric characters.  A page whose only price is in a .price element *)
(* gets that price.  The currency may be empty when a price is found.      *)
(***************************************************************************)
PriceResolved == fnName = "extractPrice"

\* the characters of a text that are no blanks
NoBlanks(text) == SelectSeq(text, LAMBDA c : c # " ")

OffersSource ==
    IF ~fnArg.offers.found THEN <<>>
    ELSE IF fnArg.offers.price.defined THEN fnArg.offers.price.v
    ELSE IF fnArg.offers.lowPrice.defined THEN fnArg.offers.lowPrice.v
    ELSE <<>>

ItempropSource ==
    IF fnArg.itempropContent.defined /\ NoBlanks(fnArg.itempropContent.v) # <<>>
    THEN NoBlanks(fnArg.itempropContent.v)
    ELSE NoBlanks(fnArg.itempropText)

ClassSource == SelectSeq(fnArg.classText, LAMBDA c : IsDigit(c) \/ c \in {".", ","})

C24_FirstPriceSourceWins ==
    PriceResolved =>
        fnRet.price = (IF OffersSource # <<>> THEN OffersSource
                       ELSE IF ItempropSource # <<>> THEN ItempropSource
                       ELSE ClassSource)

\* the only price of the page is "5 €" in a .price element: no price is found
C24_Witness ==
    /\ PriceResolved
    /\ OffersSource = <<>>
    /\ ItempropSource = <<>>
    /\ fnArg.itempropContent = Undefined
    /\ ClassSource = <<"5">>
    /\ fnRet.price = <<>>

(***************************************************************************)
(* C25: every anchor href is counted in at most one class.  Empty hrefs    *)
(* and hrefs starting with "#", "mailto:" or "tel:" are in neither; hrefs  *)
(* starting with a single "/" are internal; other hrefs are internal when  *)
(* their host name is the page's and external otherwise; hrefs that do not *)
(* parse as absolute URLs are skipped.  Internal plus external never       *)
(* exceeds the number of anchors.                                          *)
(***************************************************************************)
LinksExtracted == fnName = "extractLinks"

C25_LinksPartition ==
    LinksExtracted =>
        /\ fnRet.internal = SelectSeq(fnArg, LAMBDA href : href \in OwnHrefs)
        /\ fnRet.externalCount
              = Len(SelectSeq(fnArg, LAMBDA href : href \in ForeignHrefs))
        /\ Len(fnRet.internal) + fnRet.externalCount <= Len(fnArg)
        /\ \A k \in DOMAIN fnArg :
              (fnArg[k] = <<>> \/ fnArg[k][1] = "#")
                  => \A h \in DOMAIN fnRet.internal : fnRet.internal[h] # fnArg[k]

\* a protocol-relative href is skipped, an href of the page's host in capitals is internal
C25_Witness ==
    /\ LinksExtracted
    /\ fnArg = <<<<"/", "/", "a", ".", "i", "o", "/", "x">>, <<"h", "t", "t", "p", "s", ":", "/", "/", "A", ".", "I", "O", "/", "y">>>>
    /\ fnRet.internal = <<<<"h", "t", "t", "p", "s", ":", "/", "/", "A", ".", "I", "O", "/", "y">>>>
    /\ fnRet.externalCount = 0

(***************************************************************************)
(* C26: the effective source of an iframe is the first non-empty value     *)
(* among data-privacy-src, src and data-src, in that order: an iframe      *)
(* whose src is present but empty and whose data-src holds the address     *)
(* gets the data-src value, and the source is empty, with type "unknown",  *)
(* only when all three are absent or empty.                                *)
(***************************************************************************)
EmbedResolved == fnName = "getIframeSrc"

\* the attribute has a value that is not empty
NonEmpty(attribute) == attribute.defined /\ attribute.v # <<>>

C26_FirstNonEmptySource ==
    EmbedResolved =>
        /\ fnRet.src =
              IF NonEmpty(fnArg.privacySrc) THEN fnArg.privacySrc.v
              ELSE IF NonEmpty(fnArg.src) THEN fnArg.src.v
              ELSE IF NonEmpty(fnArg.dataSrc) THEN fnArg.dataSrc.v
              ELSE <<>>
        /\ (fnRet.type = "unknown") <=>
              ~(NonEmpty(fnArg.privacySrc) \/ NonEmpty(fnArg.src) \/ NonEmpty(fnArg.dataSrc))

\* a blanked src hides the address held by data-src
C26_Witness ==
    /\ EmbedResolved
    /\ fnArg.privacySrc = Undefined
    /\ fnArg.src = Defined(<<>>)
    /\ fnArg.dataSrc = Defined(<<"v", ".", "i", "o", "/", "3">>)
    /\ fnRet.src = <<>>
    /\ fnRet.type = "unknown"

(***************************************************************************)
(* C27: onItemDone is invoked in completion order.  The step in which a    *)
(* task settles with a result is the step that invokes onItemDone for its  *)
(* item, after every invocation made so far and with the next count,       *)
(* wherever the item stands in the input; and every notification of a      *)
(* window precedes every notification of the windows after it.             *)
(***************************************************************************)
\* the position in the input of the item of the k-th notification
NotifiedPosition(k) == CHOOSE j \in Positions : items[j] = notified[k].item

\* the task at position j settles with a result in this step
Resolves(j) == task[j].st # "resolved" /\ task'[j].st = "resolved"

NotifiedOnSettling ==
    \A j \in Positions :
        IF Resolves(j)
        THEN /\ Len(notified') = Len(notified) + 1
             /\ SubSeq(notified', 1, Len(notified)) = notified
             /\ notified'[Len(notified')].item = items[j]
             /\ notified'[Len(notified')].completed = Len(notified')
             /\ \A k \in DOMAIN notified : notified[k].completed < Len(notified')
        ELSE \A k \in DOMAIN notified' : notified'[k].item = items[j] => k \in DOMAIN notified

WindowsNotifiedInOrder ==
    \A a, b \in DOMAIN notified :
        Window(NotifiedPosition(a)) < Window(NotifiedPosition(b)) => a < b

C27_NotifiedInCompletionOrder ==
    /\ []WindowsNotifiedInOrder
    /\ [][NotifiedOnSettling]_vars

\* In a window of two the second item completed first; the third followed.
C27_Witness ==
    /\ concurrency = 2
    /\ Len(notified) = 3
    /\ NotifiedPosition(1) = 2
    /\ NotifiedPosition(2) = 1
    /\ NotifiedPosition(3) = 3
    /\ notified[1].completed = 1
    /\ notified[2].completed = 2

(***************************************************************************)
(* C28: when every launched task settles with a result, runInBatches       *)
(* returns.  Its windows are consecutive and of size concurrency, only the *)
(* last one smaller; the task of each item is launched exactly once; and   *)
(* for an empty item list it returns an empty array without launching a    *)
(* task, calling onItemDone or taking a delay.                             *)
(***************************************************************************)
\* the positions whose task is launched in this step
LaunchedNow == {j \in Positions : task[j].st = "idle" /\ task'[j].st # "idle"}

\* the positions of the window that starts after k items
WindowAfter(k) == {j \in Positions : k < j /\ j <= k + concurrency}

\* a task is launched from idle, in the window of its position, and never again
LaunchedOncePerWindow ==
    /\ \A j \in Positions : task[j].st # "idle" => task'[j].st # "idle"
    /\ LaunchedNow # {} =>
          /\ pc = "loop"
          /\ i % concurrency = 0
          /\ LaunchedNow = WindowAfter(i)
          /\ Cardinality(LaunchedNow) = Min(concurrency, Len(items) - i)

\* what runInBatches returned
PartitionedAtReturn ==
    Returned =>
        /\ \A j \in Positions : task[j].st = "resolved"
        /\ Len(results) = Len(items)
        /\ i = Windows * concurrency
        /\ Len(items) = 0 =>
              /\ results = <<>>
              /\ task = <<>>
              /\ notified = <<>>
              /\ sleeps = <<>>

\* a task rejected, which the tasks main passes never do
SomeRejected == \E j \in Positions : task[j].st = "rejected"

C28_EveryRunReturns ==
    /\ <>(Returned \/ SomeRejected \/ pc = "exit")
    /\ []PartitionedAtReturn
    /\ [][LaunchedOncePerWindow]_vars

\* Three items were run in a window of two and a window of one.
C28_Witness ==
    /\ pc = "returned"
    /\ concurrency = 2
    /\ Len(items) = 3
    /\ i = 4
    /\ Len(sleeps) = 1
    /\ Len(results) = 3

(***************************************************************************)
(* C29: when a task rejects, runInBatches rejects.  It returns no result   *)
(* array, not even the results of earlier windows; it starts no later      *)
(* window and takes no further delay; the other tasks of the window of the *)
(* rejected one still run until they settle, and those that settle with a  *)
(* result still invoke onItemDone.                                         *)
(***************************************************************************)
RunRejected == pc = "rejected"

\* the window of the rejected task is the last one launched
NothingAfterRejection ==
    SomeRejected =>
        /\ ~Returned
        /\ pc \in {"await", "rejected"}
        /\ \A j \in Positions : j > i + concurrency => task[j].st = "idle"
        /\ Len(sleeps) = i \div concurrency
        /\ pages = <<>> /\ errors = <<>>

\* once rejected, the run launches nothing, pushes nothing and sleeps no more
RejectedForGood ==
    RunRejected =>
        /\ RunRejected'
        /\ LaunchedNow = {}
        /\ <<i, results, sleeps>>' = <<i, results, sleeps>>

\* every task of the window has settled, those with a result having notified
WindowSettled ==
    \A j \in WindowAfter(i) :
        /\ Settled(j)
        /\ task[j].st = "resolved" =>
              \E k \in DOMAIN notified :
                  notified[k].item = items[j] /\ notified[k].result = task[j].result

C29_RejectionEndsTheRun ==
    /\ []NothingAfterRejection
    /\ [][RejectedForGood]_vars
    /\ SomeRejected ~> (RunRejected /\ WindowSettled)

\* The first task rejected and the run with it; its sibling then gave a
\* result and notified, and the third item was never started.
C29_Witness ==
    /\ RunRejected
    /\ concurrency = 2
    /\ Len(items) = 3
    /\ task[1].st = "rejected"
    /\ task[2].st = "resolved"
    /\ task[3].st = "idle"
    /\ Len(notified) = 1
    /\ notified[1].item = items[2]
    /\ results = <<>>

(***************************************************************************)
(* C30: in the summary of every completed run, total_success plus          *)
(* total_errors is total_crawled, which is total_urls_after_filter, which  *)
(* is at most total_urls_after_dedup, which is at most                     *)
(* total_urls_in_sitemap; and the successes and the failures each keep the *)
(* order their URLs have in the input.                                     *)
(***************************************************************************)
\* the URL an outcome of crawlPage is about
OutcomeUrl(r) == IF r.success THEN r.data.url ELSE r.error.url

\* the URLs of a list of outcomes
OutcomeUrls(rs) == [k \in DOMAIN rs |-> OutcomeUrl(rs[k])]

\* the crawled URLs whose outcome has the tag, in input order
UrlsTagged(tag) ==
    LET tagged == {j \in Positions : task[j].result.success = tag}
    IN  Restrict(items, tagged)

CrawlCompleted == pc = "done" /\ processor = "crawlPage"

C30_CountsAddUpInInputOrder ==
    /\ totals.afterFilter <= totals.afterDedup
    /\ totals.afterDedup <= totals.inSitemap
    /\ summary.written <=> CrawlCompleted
    /\ CrawlCompleted =>
          /\ summary.total_success + summary.total_errors = summary.total_crawled
          /\ summary.total_crawled = summary.total_urls_after_filter
          /\ summary.total_urls_after_filter <= summary.total_urls_after_dedup
          /\ summary.total_urls_after_dedup <= summary.total_urls_in_sitemap
          /\ summary.total_urls_in_sitemap = Len(rawUrls)
          /\ summary.total_success = Len(pages)
          /\ summary.total_errors = Len(errors)
          /\ OutcomeUrls(pages) = UrlsTagged(TRUE)
          /\ OutcomeUrls(errors) = UrlsTagged(FALSE)

\* Four sitemap URLs held two distinct ones: one was crawled, the other failed.
C30_Witness ==
    /\ CrawlCompleted
    /\ summary.total_urls_in_sitemap = 4
    /\ summary.total_urls_after_dedup = 2
    /\ summary.total_crawled = 2
    /\ summary.total_success = 1
    /\ summary.total_errors = 1

====
